---- MODULE Spec2Model ----
(***************************************************************************)
(* The order lifecycle, payment and shift handlers of the POS API server   *)
(* (src/app.js, second server) over the PostgreSQL schema of               *)
(* src/server/.sql.  Every request handler is a process whose steps are    *)
(* the awaited pool.query calls of its code: no handler opens a            *)
(* transaction, so the handlers of concurrent requests interleave between  *)
(* any two queries.  Money is kept in minor units (cents).                 *)
(***************************************************************************)
EXTENDS Integers, Sequences, FiniteSets, TLC

\* ------------------------------------------------------------------ bounds
MaxReqs == 3
MaxOrders == 2
MaxTables == 1
MaxUsers == 1
MaxFaults == 1
MaxShifts == 3
MaxStaff == 2
MaxClients == 2
MaxSockets == 4

Reqs == 1..MaxReqs
OrderIds == 1..MaxOrders
TableIds == 1..MaxTables
Users == 1..MaxUsers
Staff == 1..MaxStaff

\* ------------------------------------------------------ program constants
DefaultTaxRate == 10
\* tax_rate of the settings object refreshCache builds when the table is empty
FallbackSettingsTaxRate == 10
\* DEFAULT of business_settings.tax_rate
SchemaTaxRate == 10
\* computed amounts are carried in 1/Scale of a minor unit until they are stored
Scale == 100 * 100

Statuses ==
  {"open", "sent_to_kitchen", "preparing", "ready", "served", "paid", "cancelled"}
Undefined == "undefined"

VARIABLES orders, order_items, tables, payments, receipts, shifts,
          order_seq, receipt_seq, clock, reqs, faults, cache, clients, audit_trails,
          api, sockets, timers, call, views

\* orders .. shifts are the tables of the database, order_seq and receipt_seq its
\* sequences; clock is the database's NOW(), counted in timestamped writes;
\* reqs holds the handlers of the requests, faults counts the failed queries,
\* cache is the server's in-memory cache of the business settings; clients holds,
\* for every connected WebSocket client, the messages sent to it so far;
\* audit_trails counts the rows of the audit trail
db == <<orders, order_items, tables, payments, receipts, shifts, order_seq, receipt_seq, clock>>
\* the browser client (src/unnamed/part_000, part_006): api holds the fields of the
\* POSApi instance, sockets the WebSocket objects it has constructed, timers the
\* pending setTimeout and setInterval handles, call the requestWithRetry in
\* progress, views the components that have subscribed to WebSocket events
client == <<api, sockets, timers, call, views>>
vars == <<orders, order_items, tables, payments, receipts, shifts,
          order_seq, receipt_seq, clock, reqs, faults, cache, clients, audit_trails,
          api, sockets, timers, call, views>>

\* ------------------------------------------------------------- client data
Events == {"order_created", "order_status_updated", "payment_processed"}

\* wsListeners = new Map(): no event has a callback
NoListeners == [e \in Events |-> "none"]

\* nothing has subscribed, no message has been handled
NoViews == [subscribed |-> {}, last |-> [event |-> "none", callbacks |-> {}]]

\* no request is being made
NoCall == [phase |-> "none"]

\* no browser has loaded the client
NoClient ==
  /\ api = [token |-> FALSE, ws |-> 0, reconnectTimeout |-> 0, reconnectAttempts |-> 0,
            pingInterval |-> 0, wsListeners |-> NoListeners]
  /\ sockets = <<>>
  /\ timers = [next |-> 1, pending |-> {}]
  /\ call = NoCall
  /\ views = NoViews

\* ------------------------------------------------------------ request data
Idle == [op |-> "idle", pc |-> "idle", resp |-> 0]

Item(q, p, mods) ==
  [menu_item_id |-> 1, quantity |-> q, unit_price |-> p, total_price |-> q * p,
   modifiers |-> mods]

ItemLists == { <<Item(1, 1000, <<>>)>>, <<Item(1, 1000, <<>>), Item(2, 500, <<>>)>>, <<>> }

\* the request bodies the model draws: a dine-in order on a table, a takeaway
\* order sent to the kitchen at once, and a body without items
CreateBodies ==
  { b \in [table_id : 0..MaxTables, order_type : {"dine_in", "takeaway"},
           items : ItemLists, user_id : Users,
           discount_type : {Undefined}, discount_value : {0},
           status : {"open", "sent_to_kitchen"}] :
      /\ (b.order_type = "dine_in") <=> (b.table_id # 0)
      /\ (b.order_type = "dine_in") <=> (Len(b.items) = 1)
      /\ (b.status = "sent_to_kitchen") <=> (Len(b.items) = 2) }

\* the payment bodies the model draws: cash with and without tip, cash of another
\* amount and of amount 0, card with and without a reference, an unknown method
PayBodies ==
  { b \in [payment_method : {"cash", "card", "voucher"}, amount : {0, 1100, 2200},
           tip_amount : {0, 300}, reference_number : {Undefined, "REF1"},
           user_id : Users] :
      /\ (b.tip_amount = 300) => (b.payment_method = "cash" /\ b.amount = 1100)
      /\ (b.payment_method = "cash") => (b.reference_number = Undefined)
      /\ (b.payment_method = "voucher") => (b.reference_number = Undefined)
      /\ (b.payment_method # "cash") => (b.amount = 1100) }

StartingCash == {10000, 5000}
EndingCash == {12000}

\* what the payment dialog offers
ModalMethods == {"cash", "card", "mobile"}
ModalReferences == {"", " ", "REF1"}

\* ----------------------------------------------------------------- pricing
RECURSIVE SumSeq(_)
SumSeq(s) == IF s = <<>> THEN 0 ELSE s[1] + SumSeq(Tail(s))

\* items.reduce(...): quantity * unit_price plus the modifiers' adjustments
RECURSIVE Subtotal(_)
Subtotal(items) ==
  IF items = <<>> THEN 0
  ELSE Subtotal(SubSeq(items, 1, Len(items) - 1))
       + items[Len(items)].quantity * items[Len(items)].unit_price
       + SumSeq(items[Len(items)].modifiers)

DiscountAmount(subtotal, discount_type, discount_value) ==
  IF discount_type # Undefined /\ discount_value # 0
  THEN IF discount_type = "percentage" THEN subtotal * discount_value * (Scale \div 100)
       ELSE discount_value * Scale
  ELSE 0

DiscountTypeOk(discount_type, discount_value) ==
  (discount_type # Undefined /\ discount_value # 0)
    => discount_type \in {"percentage", "fixed"}

\* JavaScript values as the handlers see them: node-postgres hands a DECIMAL
\* column over as its text, a NULL as null
JsNumber(n) == [type |-> "number", num |-> n]
JsString(n) == [type |-> "string", num |-> n]
JsNull == [type |-> "null", num |-> 0]

\* the text of a DECIMAL is never empty, so it is truthy whatever its value
Truthy(v) == v.type = "string" \/ (v.type = "number" /\ v.num # 0)
ToNumber(v) == v.num

\* a row of business_settings
SettingsRow(tax_rate, is_null) == [tax_rate |-> tax_rate, is_null |-> is_null]

\* cache before the first refreshCache has answered
EmptyCache == [businessSettings |-> [is_null |-> TRUE, tax_rate |-> JsNull]]

\* settings[0] || { ..., tax_rate: 10.00, ... }
RefreshCache(settings) ==
  [businessSettings |->
     [is_null |-> FALSE,
      tax_rate |-> IF settings = <<>> THEN JsNumber(FallbackSettingsTaxRate)
                   ELSE IF settings[1].is_null THEN JsNull
                   ELSE JsString(settings[1].tax_rate)]]

\* cache.businessSettings.tax_rate || 10.00
TaxRate(settings_rate) ==
  IF Truthy(settings_rate) THEN ToNumber(settings_rate) ELSE DefaultTaxRate

\* a DECIMAL(10,2) column rounds half away from zero
ToNumeric2(u) ==
  IF u >= 0 THEN (u + Scale \div 2) \div Scale ELSE 0 - ((0 - u + Scale \div 2) \div Scale)

NewOrderRow(body, number, created_at) ==
  LET subtotal == Subtotal(body.items)
      discountAmount == DiscountAmount(subtotal, body.discount_type, body.discount_value)
      discountedSubtotal == subtotal * Scale - discountAmount
      taxAmount == (discountedSubtotal * TaxRate(cache.businessSettings.tax_rate)) \div 100
      totalAmount == discountedSubtotal + taxAmount
  IN [order_number |-> number, table_id |-> body.table_id, order_type |-> body.order_type,
      status |-> body.status, subtotal |-> ToNumeric2(discountedSubtotal),
      tax_amount |-> ToNumeric2(taxAmount), discount_amount |-> ToNumeric2(discountAmount),
      total_amount |-> ToNumeric2(totalAmount), tip_amount |-> 0,
      server_id |-> body.user_id, payment_method |-> Undefined, created_at |-> created_at]

\* -------------------------------------------------------------------- Init
Init ==
  /\ orders = <<>>
  /\ order_items = <<>>
  /\ tables = [t \in TableIds |-> "available"]
  /\ payments = <<>>
  /\ receipts = <<>>
  /\ shifts = <<>>
  /\ order_seq = 0
  /\ receipt_seq = 0
  /\ clock = 0
  /\ reqs = [r \in Reqs |-> Idle]
  /\ faults = 0
  /\ cache = RefreshCache(<<SettingsRow(SchemaTaxRate, FALSE)>>)
  /\ clients = <<>>
  /\ audit_trails = 0
  /\ NoClient

\* a request arrives on the next free handler slot
CanArrive(r) == reqs[r].op = "idle" /\ (IF r = 1 THEN TRUE ELSE reqs[r - 1].op # "idle")

At(r, op, pc) == reqs[r].op = op /\ reqs[r].pc = pc

\* what is left of a handler once it has answered: the operation, the order it
\* was about and the HTTP status of the response
Answer(q, code) == [op |-> q.op, pc |-> "done", resp |-> code, o |-> q.o]

Goto(r, pc) == reqs' = [reqs EXCEPT ![r].pc = pc]
Respond(r, code) == reqs' = [reqs EXCEPT ![r] = Answer(reqs[r], code)]

OrderExists(o) == o \in 1..Len(orders)

\* ------------------------------------------------- audit trail and broadcast
\* createAuditTrail as if it had no try/catch: a failed INSERT is thrown on
AuditThrowsUncaught(ok) == ~ok

\* createAuditTrail catches and logs the error of its INSERT: it never throws
AuditThrows(ok) == FALSE

\* the message of the event a handler broadcasts
EventOf(q) ==
  [event |-> IF q.op = "create" THEN "order_created"
             ELSE IF q.op = "status" THEN "order_status_updated"
             ELSE "payment_processed",
   order_id |-> q.o,
   status |-> IF q.op = "create" THEN q.body.status
              ELSE IF q.op = "status" THEN q.status
              ELSE Undefined]

\* clients.forEach(client => client.send(message)) has no try/catch: either
\* every send returns (thrown_at = 0) or the callback throws at a client, by
\* client.send or by WebSocket.OPEN where the runtime has no global WebSocket,
\* and the clients after it are not reached
BroadcastOutcomes == 0..Len(clients)

Broadcast(message, thrown_at) ==
  IF Len(clients) = 0 THEN clients
  ELSE [c \in 1..Len(clients) |->
          IF thrown_at = 0 \/ c < thrown_at THEN Append(clients[c], message) ELSE clients[c]]

\* the handler from its createAuditTrail on: the audit INSERT succeeds (ok) or
\* fails, then the broadcast of the order handlers, then the response; what is
\* thrown reaches the handler's catch block, which answers 500
AfterAudit(r, ok) ==
  /\ audit_trails' = IF ok THEN audit_trails + 1 ELSE audit_trails
  /\ IF AuditThrows(ok)
     THEN Respond(r, 500) /\ UNCHANGED clients
     ELSE IF reqs[r].op \in {"create", "status", "pay"}
     THEN \E thrown_at \in BroadcastOutcomes :
            /\ clients' = Broadcast(EventOf(reqs[r]), thrown_at)
            /\ Respond(r, IF thrown_at = 0 THEN 200 ELSE 500)
     ELSE Respond(r, 200) /\ UNCHANGED clients

\* ------------------------------------------------- order and receipt numbers
\* lpad(nextval(...)::text, 4, '0')
PadLength == 4

\* lpad cuts a text longer than length down to its first length characters and
\* fills a shorter one with zeros; a text of exactly length digits is given here
\* by the number it reads as
RECURSIVE Lpad(_, _)
Lpad(n, length) == IF n < 10 ^ length THEN n ELSE Lpad(n \div 10, length)

\* generate_order_number() and generate_receipt_number() for the counter value
\* nextval returned; the prefix and the date are the same for every number of
\* one day and are left out
GenerateNumber(counter) == Lpad(counter, PadLength)

\* ------------------------------------------------------------ POST /orders
ItemsValid(items) ==
  \A i \in 1..Len(items) :
    /\ items[i].menu_item_id # 0 /\ items[i].quantity # 0
    /\ items[i].unit_price # 0 /\ items[i].total_price # 0

\* the creations admitted so far leave room for one more order row
RoomForOrder ==
  Cardinality({r \in Reqs : reqs[r].op = "create" /\ reqs[r].resp # 400}) < MaxOrders

CreateOrderRequest(r, body) ==
  /\ CanArrive(r)
  /\ RoomForOrder
  /\ reqs' = [reqs EXCEPT ![r] =
       IF body.items = <<>> \/ body.user_id = 0 \/ ~ItemsValid(body.items)
       THEN [op |-> "create", pc |-> "done", resp |-> 400, o |-> 0]
       ELSE [op |-> "create", pc |-> "order_number", resp |-> 0, o |-> 0, body |-> body]]
  /\ UNCHANGED <<db, faults, cache, clients, audit_trails, client>>

CreateOrderNumber(r) ==
  /\ At(r, "create", "order_number")
  /\ order_seq' = order_seq + 1
  /\ reqs' = [reqs EXCEPT ![r] =
       IF ~DiscountTypeOk(reqs[r].body.discount_type, reqs[r].body.discount_value)
       THEN Answer(reqs[r], 400)
       ELSE IF cache.businessSettings.is_null
       THEN Answer(reqs[r], 500)
       ELSE [reqs[r] EXCEPT !.pc = "insert_order"] @@ [orderNumber |-> GenerateNumber(order_seq + 1)]]
  /\ UNCHANGED <<orders, order_items, tables, payments, receipts, shifts, receipt_seq, clock, faults, cache, clients, audit_trails, client>>

\* order_number is UNIQUE: the INSERT of a number a row already has is rejected
CreateInsertOrder(r) ==
  /\ At(r, "create", "insert_order")
  /\ IF \E o \in 1..Len(orders) : orders[o].order_number = reqs[r].orderNumber
     THEN /\ Respond(r, 500)
          /\ UNCHANGED <<orders, order_items, clock>>
     ELSE /\ orders' = Append(orders, NewOrderRow(reqs[r].body, reqs[r].orderNumber, clock + 1))
          /\ order_items' = Append(order_items, 0)
          /\ clock' = clock + 1
          /\ reqs' = [reqs EXCEPT ![r] =
               [reqs[r] EXCEPT !.pc = "insert_items", !.o = Len(orders) + 1] @@ [i |-> 1]]
  /\ UNCHANGED <<tables, payments, receipts, shifts, order_seq, receipt_seq, faults, cache, clients, audit_trails, client>>

CreateInsertItem(r) ==
  /\ At(r, "create", "insert_items")
  /\ LET q == reqs[r] IN
     /\ order_items' = [order_items EXCEPT ![q.o] = @ + 1]
     /\ reqs' = [reqs EXCEPT ![r].i = q.i + 1,
                             ![r].pc = IF q.i < Len(q.body.items) THEN "insert_items"
                                       ELSE IF q.body.table_id # 0 /\ q.body.order_type = "dine_in"
                                            THEN "occupy_table" ELSE "audit"]
  /\ UNCHANGED <<orders, tables, payments, receipts, shifts, order_seq, receipt_seq, clock, faults, cache, clients, audit_trails, client>>

CreateOccupyTable(r) ==
  /\ At(r, "create", "occupy_table")
  /\ tables' = [t \in TableIds |-> IF t = reqs[r].body.table_id THEN "occupied" ELSE tables[t]]
  /\ Goto(r, "audit")
  /\ UNCHANGED <<orders, order_items, payments, receipts, shifts, order_seq, receipt_seq, clock, faults, cache, clients, audit_trails, client>>

\* createAuditTrail, broadcast('order_created'), the final SELECT and res.json
CreateFinish(r) ==
  /\ At(r, "create", "audit")
  /\ AfterAudit(r, TRUE)
  /\ UNCHANGED <<db, faults, cache, client>>

\* ------------------------------------------------ PUT /orders/:orderId/status
UpdateStatusRequest(r, o, status, user_id) ==
  /\ CanArrive(r)
  /\ reqs' = [reqs EXCEPT ![r] =
       IF status = "" \/ user_id = 0
       THEN [op |-> "status", pc |-> "done", resp |-> 400, o |-> o]
       ELSE [op |-> "status", pc |-> "update", resp |-> 0, o |-> o, status |-> status]]
  /\ UNCHANGED <<db, faults, cache, clients, audit_trails, client>>

\* UPDATE orders SET status = $1 ... WHERE id = $3 RETURNING *
StatusUpdate(r) ==
  /\ At(r, "status", "update")
  /\ LET q == reqs[r] IN
     IF OrderExists(q.o)
     THEN /\ orders' = [orders EXCEPT ![q.o].status = q.status]
          /\ Goto(r, "audit")
     ELSE /\ Respond(r, 404)
          /\ UNCHANGED orders
  /\ UNCHANGED <<order_items, tables, payments, receipts, shifts, order_seq, receipt_seq, clock, faults, cache, clients, audit_trails, client>>

\* createAuditTrail, broadcast('order_status_updated') and res.json(order)
StatusFinish(r) ==
  /\ At(r, "status", "audit")
  /\ AfterAudit(r, TRUE)
  /\ UNCHANGED <<db, faults, cache, client>>

\* ---------------------------------------------- POST /orders/:orderId/payment
PayRequest(r, o, body) ==
  /\ CanArrive(r)
  /\ reqs' = [reqs EXCEPT ![r] =
       IF body.payment_method = "" \/ body.amount = 0 \/ body.user_id = 0
       THEN [op |-> "pay", pc |-> "done", resp |-> 400, o |-> o]
       ELSE [op |-> "pay", pc |-> "select_order", resp |-> 0, o |-> o, body |-> body]]
  /\ UNCHANGED <<db, faults, cache, clients, audit_trails, client>>

\* String.prototype.trim on the references the dialog offers
Trim(s) == IF s = " " THEN "" ELSE s

\* PaymentModal.handlePayment: the checks before the store is called
ModalAccepts(paymentMethod, reference, tip) ==
  /\ ~(paymentMethod \in {"card", "mobile"} /\ Trim(reference) = "")
  /\ tip >= 0

\* the arguments handlePayment passes to the store's processPayment
ModalArgs(order_total, paymentMethod, reference, tip) ==
  [paymentMethod |-> paymentMethod, amount |-> order_total, tip |-> tip,
   reference |-> IF paymentMethod = "cash" THEN Undefined ELSE Trim(reference)]

\* usePOSStore.processPayment(orderId, paymentMethod, amount, tip = 0) takes four
\* parameters and builds the body of posApi.processPayment from them
StoreBody(args, user_id) ==
  [payment_method |-> args.paymentMethod, amount |-> args.amount,
   tip_amount |-> args.tip, reference_number |-> Undefined, user_id |-> user_id]

\* a payment made in the client: the Process Payment button of OrdersView,
\* PaymentModal.handlePayment, the store, posApi.processPayment, the server
PayViaStoreRequest(r, o, paymentMethod, reference, tip, user_id) ==
  /\ OrderExists(o)
  /\ orders[o].status \in {"ready", "served"}
  /\ ModalAccepts(paymentMethod, reference, tip)
  /\ PayRequest(r, o, StoreBody(ModalArgs(orders[o].total_amount, paymentMethod, reference, tip),
                                user_id))

\* the lookup answering a missing order like a conflict
PaySelectOrderConflict(r) ==
  /\ At(r, "pay", "select_order")
  /\ LET q == reqs[r] IN
     reqs' = [reqs EXCEPT ![r] =
       IF OrderExists(q.o)
       THEN [q EXCEPT !.pc = "insert_payment"]
              @@ [order |-> [table_id |-> orders[q.o].table_id,
                             order_type |-> orders[q.o].order_type]]
       ELSE Answer(q, 400)]
  /\ UNCHANGED <<db, faults, cache, clients, audit_trails, client>>

PaySelectOrder(r) ==
  /\ At(r, "pay", "select_order")
  /\ LET q == reqs[r] IN
     reqs' = [reqs EXCEPT ![r] =
       IF OrderExists(q.o)
       THEN [q EXCEPT !.pc = "insert_payment"]
              @@ [order |-> [table_id |-> orders[q.o].table_id,
                             order_type |-> orders[q.o].order_type]]
       ELSE Answer(q, 404)]
  /\ UNCHANGED <<db, faults, cache, clients, audit_trails, client>>

PayInsertPayment(r) ==
  /\ At(r, "pay", "insert_payment")
  /\ LET q == reqs[r] IN
     /\ payments' = Append(payments,
          [order_id |-> q.o, payment_method |-> q.body.payment_method,
           amount |-> q.body.amount, tip_amount |-> q.body.tip_amount,
           reference_number |-> q.body.reference_number, processed_by |-> q.body.user_id])
     /\ reqs' = [reqs EXCEPT ![r] = [q EXCEPT !.pc = "update_order"] @@ [payment |-> Len(payments) + 1]]
  /\ UNCHANGED <<orders, order_items, tables, receipts, shifts, order_seq, receipt_seq, clock, faults, cache, clients, audit_trails, client>>

PayUpdateOrder(r) ==
  /\ At(r, "pay", "update_order")
  /\ LET q == reqs[r] IN
     /\ orders' = [orders EXCEPT ![q.o].status = "paid", ![q.o].tip_amount = q.body.tip_amount]
     /\ Goto(r, IF q.order.table_id # 0 /\ q.order.order_type = "dine_in"
                THEN "release_table" ELSE "select_items")
  /\ UNCHANGED <<order_items, tables, payments, receipts, shifts, order_seq, receipt_seq, clock, faults, cache, clients, audit_trails, client>>

PayReleaseTable(r) ==
  /\ At(r, "pay", "release_table")
  /\ tables' = [t \in TableIds |-> IF t = reqs[r].order.table_id THEN "available" ELSE tables[t]]
  /\ Goto(r, "select_items")
  /\ UNCHANGED <<orders, order_items, payments, receipts, shifts, order_seq, receipt_seq, clock, faults, cache, clients, audit_trails, client>>

\* SELECT ... FROM order_items, then SELECT generate_receipt_number()
PayReceiptNumber(r) ==
  /\ At(r, "pay", "select_items")
  /\ receipt_seq' = receipt_seq + 1
  /\ reqs' = [reqs EXCEPT ![r] =
       [reqs[r] EXCEPT !.pc = "insert_receipt"] @@ [receiptNumber |-> GenerateNumber(receipt_seq + 1)]]
  /\ UNCHANGED <<orders, order_items, tables, payments, receipts, shifts, order_seq, clock, faults, cache, clients, audit_trails, client>>

\* the handler going on to its broadcast without the receipt stored
PayInsertReceiptSkipped(r) ==
  /\ At(r, "pay", "insert_receipt")
  /\ Goto(r, "audit")
  /\ UNCHANGED <<db, faults, cache, clients, audit_trails, client>>

\* receipt_number is UNIQUE
PayInsertReceipt(r) ==
  /\ At(r, "pay", "insert_receipt")
  /\ LET q == reqs[r] IN
     IF \E i \in 1..Len(receipts) : receipts[i].receipt_number = q.receiptNumber
     THEN /\ Respond(r, 500)
          /\ UNCHANGED receipts
     ELSE /\ receipts' = Append(receipts,
               [receipt_number |-> q.receiptNumber, order_id |-> q.o,
                tip_amount |-> q.body.tip_amount,
                total_amount |-> q.body.amount + q.body.tip_amount])
          /\ Goto(r, "audit")
  /\ UNCHANGED <<orders, order_items, tables, payments, shifts, order_seq, receipt_seq, clock, faults, cache, clients, audit_trails, client>>

\* createAuditTrail, broadcast('payment_processed') and res.json
PayFinish(r) ==
  /\ At(r, "pay", "audit")
  /\ AfterAudit(r, TRUE)
  /\ UNCHANGED <<db, faults, cache, client>>

OrderNext ==
  \/ \E r \in Reqs, body \in CreateBodies : CreateOrderRequest(r, body)
  \/ \E r \in Reqs : CreateOrderNumber(r)
  \/ \E r \in Reqs : CreateInsertOrder(r)
  \/ \E r \in Reqs : CreateInsertItem(r)
  \/ \E r \in Reqs : CreateOccupyTable(r)
  \/ \E r \in Reqs : CreateFinish(r)
  \/ \E r \in Reqs, o \in OrderIds, s \in Statuses, u \in Users : UpdateStatusRequest(r, o, s, u)
  \/ \E r \in Reqs : StatusUpdate(r)
  \/ \E r \in Reqs : StatusFinish(r)
  \/ \E r \in Reqs, o \in OrderIds, body \in PayBodies : PayRequest(r, o, body)
  \/ \E r \in Reqs, o \in OrderIds, m \in ModalMethods, ref \in ModalReferences, u \in Users :
       PayViaStoreRequest(r, o, m, ref, 0, u)
  \/ \E r \in Reqs : PaySelectOrder(r)
  \/ \E r \in Reqs : PayInsertPayment(r)
  \/ \E r \in Reqs : PayUpdateOrder(r)
  \/ \E r \in Reqs : PayReleaseTable(r)
  \/ \E r \in Reqs : PayReceiptNumber(r)
  \/ \E r \in Reqs : PayInsertReceipt(r)
  \/ \E r \in Reqs : PayFinish(r)

\* ------------------------------------------------------- POST /shifts/start
ActiveShifts(user_id) ==
  {k \in 1..Len(shifts) : shifts[k].user_id = user_id /\ shifts[k].status = "active"}

StartShiftRequest(r, user_id, starting_cash) ==
  /\ CanArrive(r)
  /\ reqs' = [reqs EXCEPT ![r] =
       IF user_id = 0
       THEN [op |-> "start", pc |-> "done", resp |-> 400, o |-> 0]
       ELSE [op |-> "start", pc |-> "select_active", resp |-> 0, o |-> 0,
             user_id |-> user_id, starting_cash |-> starting_cash]]
  /\ UNCHANGED <<db, faults, cache, clients, audit_trails, client>>

\* the handler without its existingShift.length > 0 test
StartSelectActiveNoCheck(r) ==
  /\ At(r, "start", "select_active")
  /\ Goto(r, "insert_shift")
  /\ UNCHANGED <<db, faults, cache, clients, audit_trails, client>>

\* SELECT id FROM shifts WHERE user_id = $1 AND status = 'active'
StartSelectActive(r) ==
  /\ At(r, "start", "select_active")
  /\ IF ActiveShifts(reqs[r].user_id) # {} THEN Respond(r, 400) ELSE Goto(r, "insert_shift")
  /\ UNCHANGED <<db, faults, cache, clients, audit_trails, client>>

NewShiftRow(user_id, starting_cash, start_time) ==
  [user_id |-> user_id, starting_cash |-> starting_cash, status |-> "active",
   start_time |-> start_time, end_time |-> 0, ending_cash |-> 0,
   total_sales |-> 0, total_tips |-> 0, total_orders |-> 0,
   cash_sales |-> 0, card_sales |-> 0, mobile_sales |-> 0]

StartInsertShift(r) ==
  /\ At(r, "start", "insert_shift")
  /\ Len(shifts) < MaxShifts
  /\ shifts' = Append(shifts, NewShiftRow(reqs[r].user_id, reqs[r].starting_cash, clock + 1))
  /\ clock' = clock + 1
  /\ Goto(r, "audit")
  /\ UNCHANGED <<orders, order_items, tables, payments, receipts, order_seq, receipt_seq, faults, cache, clients, audit_trails, client>>

\* createAuditTrail and res.json(shift)
StartFinish(r) ==
  /\ At(r, "start", "audit")
  /\ AfterAudit(r, TRUE)
  /\ UNCHANGED <<db, faults, cache, client>>

\* --------------------------------------------------------- POST /shifts/end
EndShiftRequest(r, user_id, ending_cash) ==
  /\ CanArrive(r)
  /\ reqs' = [reqs EXCEPT ![r] =
       IF user_id = 0
       THEN [op |-> "end", pc |-> "done", resp |-> 400, o |-> 0]
       ELSE [op |-> "end", pc |-> "select_shift", resp |-> 0, o |-> 0,
             user_id |-> user_id, ending_cash |-> ending_cash]]
  /\ UNCHANGED <<db, faults, cache, clients, audit_trails, client>>

\* SELECT * FROM shifts WHERE user_id = $1 AND status = 'active'; shiftRows[0]
\* is any of the rows, the query has no ORDER BY
EndSelectShift(r) ==
  /\ At(r, "end", "select_shift")
  /\ LET q == reqs[r] IN
     IF ActiveShifts(q.user_id) = {}
     THEN Respond(r, 404)
     ELSE \E k \in ActiveShifts(q.user_id) :
            reqs' = [reqs EXCEPT ![r] =
              [q EXCEPT !.pc = "select_orders"]
                @@ [shift |-> [id |-> k, start_time |-> shifts[k].start_time]]]
  /\ UNCHANGED <<db, faults, cache, clients, audit_trails, client>>

\* the query without its created_at condition
ShiftOrdersAnyTime(user_id, start_time) ==
  {o \in 1..Len(orders) : orders[o].server_id = user_id /\ orders[o].status = "paid"}

\* WHERE server_id = $1 AND created_at >= $2 AND status = 'paid'
ShiftOrders(user_id, start_time) ==
  {o \in 1..Len(orders) : /\ orders[o].server_id = user_id
                          /\ orders[o].created_at >= start_time
                          /\ orders[o].status = "paid"}

RECURSIVE SumOver(_, _)
SumOver(S, f) ==
  IF S = {} THEN 0 ELSE LET x == CHOOSE y \in S : TRUE IN f[x] + SumOver(S \ {x}, f)

MethodOrders(S, method) == {o \in S : orders[o].payment_method = method}

Aggregates(S) ==
  [total_sales |-> SumOver(S, [o \in S |-> orders[o].total_amount]),
   total_tips |-> SumOver(S, [o \in S |-> orders[o].tip_amount]),
   total_orders |-> Cardinality(S),
   cash_sales |-> SumOver(MethodOrders(S, "cash"), [o \in S |-> orders[o].total_amount]),
   card_sales |-> SumOver(MethodOrders(S, "card"), [o \in S |-> orders[o].total_amount]),
   mobile_sales |-> SumOver(MethodOrders(S, "mobile"), [o \in S |-> orders[o].total_amount])]

EndSelectOrders(r) ==
  /\ At(r, "end", "select_orders")
  /\ LET q == reqs[r] IN
     reqs' = [reqs EXCEPT ![r] =
       [q EXCEPT !.pc = "update_shift"]
         @@ [sums |-> Aggregates(ShiftOrders(q.user_id, q.shift.start_time))]]
  /\ UNCHANGED <<db, faults, cache, clients, audit_trails, client>>

\* UPDATE shifts SET ... status = 'closed' WHERE id = $9
EndUpdateShift(r) ==
  /\ At(r, "end", "update_shift")
  /\ LET q == reqs[r] IN
     shifts' = [shifts EXCEPT ![q.shift.id] =
       [@ EXCEPT !.end_time = clock + 1, !.ending_cash = q.ending_cash,
                 !.total_sales = q.sums.total_sales, !.total_tips = q.sums.total_tips,
                 !.total_orders = q.sums.total_orders, !.cash_sales = q.sums.cash_sales,
                 !.card_sales = q.sums.card_sales, !.mobile_sales = q.sums.mobile_sales,
                 !.status = "closed"]]
  /\ clock' = clock + 1
  /\ Goto(r, "audit")
  /\ UNCHANGED <<orders, order_items, tables, payments, receipts, order_seq, receipt_seq, faults, cache, clients, audit_trails, client>>

\* createAuditTrail and res.json(updatedShift)
EndFinish(r) ==
  /\ At(r, "end", "audit")
  /\ AfterAudit(r, TRUE)
  /\ UNCHANGED <<db, faults, cache, client>>

ShiftNext ==
  \/ \E r \in Reqs, u \in Users, c \in StartingCash : StartShiftRequest(r, u, c)
  \/ \E r \in Reqs : StartSelectActive(r)
  \/ \E r \in Reqs : StartInsertShift(r)
  \/ \E r \in Reqs : StartFinish(r)
  \/ \E r \in Reqs, u \in Users, c \in EndingCash : EndShiftRequest(r, u, c)
  \/ \E r \in Reqs : EndSelectShift(r)
  \/ \E r \in Reqs : EndSelectOrders(r)
  \/ \E r \in Reqs : EndUpdateShift(r)
  \/ \E r \in Reqs : EndFinish(r)

\* ------------------------------------------------------------ failed queries
\* pool.query rejects (connection lost, timeout): the handler's catch block
\* answers 500 and nothing it has written so far is undone
AtQuery(r) == reqs[r].pc \notin {"idle", "done", "audit"}

\* the INSERT of createAuditTrail rejects
AuditFault(r) ==
  /\ reqs[r].pc = "audit"
  /\ faults < MaxFaults
  /\ faults' = faults + 1
  /\ AfterAudit(r, FALSE)
  /\ UNCHANGED <<db, cache, client>>

StorageFault(r) ==
  /\ AtQuery(r)
  /\ faults < MaxFaults
  /\ faults' = faults + 1
  /\ Respond(r, 500)
  /\ UNCHANGED <<db, cache, clients, audit_trails, client>>

Next == OrderNext

Spec == Init /\ [][Next]_vars

\* the shift handlers alone
ShiftSpec == Init /\ [][ShiftNext]_vars

\* order creation and payment with queries that may fail
FaultNext ==
  \/ \E r \in Reqs, body \in CreateBodies : CreateOrderRequest(r, body)
  \/ \E r \in Reqs : CreateOrderNumber(r)
  \/ \E r \in Reqs : CreateInsertOrder(r)
  \/ \E r \in Reqs : CreateInsertItem(r)
  \/ \E r \in Reqs : CreateOccupyTable(r)
  \/ \E r \in Reqs : CreateFinish(r)
  \/ \E r \in Reqs, o \in OrderIds, body \in PayBodies : PayRequest(r, o, body)
  \/ \E r \in Reqs : PaySelectOrder(r)
  \/ \E r \in Reqs : PayInsertPayment(r)
  \/ \E r \in Reqs : PayUpdateOrder(r)
  \/ \E r \in Reqs : PayReleaseTable(r)
  \/ \E r \in Reqs : PayReceiptNumber(r)
  \/ \E r \in Reqs : PayInsertReceipt(r)
  \/ \E r \in Reqs : PayFinish(r)
  \/ \E r \in Reqs : StorageFault(r)

FaultSpec == Init /\ [][FaultNext]_vars

\* ------------------------------------------------------------------ pricing
\* the item lists the pricing runs draw: one line, two lines with a modifier in
\* both orders, a negative quantity, a negative price, a zero quantity, no line
PricingItemLists ==
  { <<Item(2, 1000, <<>>)>>,
    <<Item(1, 1000, <<150>>), Item(2, 500, <<>>)>>,
    <<Item(2, 500, <<>>), Item(1, 1000, <<150>>)>>,
    <<Item(0 - 1, 1000, <<>>)>>,
    <<Item(1, 0 - 500, <<>>)>>,
    <<Item(0, 1000, <<>>)>>,
    <<>> }

\* discount_type and discount_value of the body; values of a fixed discount are
\* amounts in minor units
PricingDiscounts ==
  { <<Undefined, 0>>, <<"percentage", 10>>, <<"percentage", 100>>, <<"percentage", 150>>,
    <<"fixed", 500>>, <<"fixed", 5000>>, <<"fixed", 0 - 500>>, <<"amount", 500>> }

\* the status a body may name besides the default 'open'
PricingStatuses == {"sent_to_kitchen", "ready", "paid"}

PricingBodies ==
  { [table_id |-> IF Len(items) = 1 /\ items[1].unit_price = 1000 THEN 1 ELSE 0,
     order_type |-> IF Len(items) = 1 /\ items[1].unit_price = 1000 THEN "dine_in" ELSE "takeaway",
     items |-> items, user_id |-> 1,
     discount_type |-> d[1], discount_value |-> d[2], status |-> "open"] :
      items \in PricingItemLists, d \in PricingDiscounts }
  \cup
  { [table_id |-> 1, order_type |-> "dine_in", items |-> <<Item(2, 1000, <<>>)>>, user_id |-> 1,
     discount_type |-> Undefined, discount_value |-> 0, status |-> status] :
      status \in PricingStatuses }

\* the business_settings table when the server starts: no row, a row without
\* rate, a row with a rate of 0, 8 or 10 percent
PricingSettings ==
  { <<>>, <<SettingsRow(0, TRUE)>> } \cup { <<SettingsRow(rate, FALSE)>> : rate \in {0, 8, 10} }

PricingInit ==
  /\ orders = <<>>
  /\ order_items = <<>>
  /\ tables = [t \in TableIds |-> "available"]
  /\ payments = <<>>
  /\ receipts = <<>>
  /\ shifts = <<>>
  /\ order_seq = 0
  /\ receipt_seq = 0
  /\ clock = 0
  /\ reqs = [r \in Reqs |-> Idle]
  /\ faults = 0
  /\ cache \in {EmptyCache} \cup {RefreshCache(settings) : settings \in PricingSettings}
  /\ clients = <<>>
  /\ audit_trails = 0
  /\ NoClient

\* one createOrder at a time: pricing reads nothing another request writes
PricingNext ==
  \/ \E body \in PricingBodies : CreateOrderRequest(1, body)
  \/ \E r \in Reqs : CreateOrderNumber(r)
  \/ \E r \in Reqs : CreateInsertOrder(r)
  \/ \E r \in Reqs : CreateInsertItem(r)
  \/ \E r \in Reqs : CreateOccupyTable(r)
  \/ \E r \in Reqs : CreateFinish(r)

PricingSpec == PricingInit /\ [][PricingNext]_vars

\* ------------------------------------------------------------------- ledger
\* what the handlers have made of an order by the time a shift ends: served and
\* unpaid, paid in cash with a tip, paid by card, paid by mobile money
LedgerKinds ==
  { [items |-> <<Item(1, 1000, <<>>)>>, status |-> "served", tip_amount |-> 0,
     payment_method |-> Undefined],
    [items |-> <<Item(1, 1000, <<>>)>>, status |-> "paid", tip_amount |-> 300,
     payment_method |-> "cash"],
    [items |-> <<Item(1, 1000, <<>>), Item(2, 500, <<>>)>>, status |-> "paid", tip_amount |-> 0,
     payment_method |-> "card"],
    [items |-> <<Item(1, 1000, <<>>)>>, status |-> "paid", tip_amount |-> 0,
     payment_method |-> "mobile"] }

\* the row createOrder wrote for a takeaway order of server_id, after the status
\* updates and the payment of its kind
LedgerOrder(kind, server_id, number, created_at) ==
  [NewOrderRow([table_id |-> 0, order_type |-> "takeaway", items |-> kind.items,
                user_id |-> server_id, discount_type |-> Undefined, discount_value |-> 0,
                status |-> "open"], number, created_at)
     EXCEPT !.status = kind.status, !.tip_amount = kind.tip_amount]

\* the payments rows of the paid orders among ks, in order
RECURSIVE LedgerPayments(_)
LedgerPayments(ks) ==
  IF Len(ks) = 0 THEN <<>>
  ELSE LET n == Len(ks)
           rest == LedgerPayments(SubSeq(ks, 1, n - 1))
       IN IF ks[n].kind.status = "paid"
          THEN Append(rest,
                 [order_id |-> n, payment_method |-> ks[n].kind.payment_method,
                  amount |-> LedgerOrder(ks[n].kind, ks[n].server_id, n, 0).total_amount,
                  tip_amount |-> ks[n].kind.tip_amount,
                  reference_number |-> Undefined, processed_by |-> ks[n].server_id])
          ELSE rest

\* the receipts rows of those payments
LedgerReceipts(rows) ==
  [i \in 1..Len(rows) |->
     [receipt_number |-> i, order_id |-> rows[i].order_id, tip_amount |-> rows[i].tip_amount,
      total_amount |-> rows[i].amount + rows[i].tip_amount]]

\* a database after a day's work: n orders of several staff members, the first
\* p - 1 of them created before staff member 1 started the shift that is active
LedgerInit ==
  \E n \in 0..MaxOrders :
    \E p \in 1..(n + 1), ks \in [1..n -> [kind : LedgerKinds, server_id : Staff]] :
      /\ cache = RefreshCache(<<SettingsRow(SchemaTaxRate, FALSE)>>)
      /\ clients = <<>>
      /\ audit_trails = n + Len(LedgerPayments(ks)) + 1
      /\ NoClient
      /\ orders = [i \in 1..n |->
                     LedgerOrder(ks[i].kind, ks[i].server_id, i, IF i < p THEN i ELSE i + 1)]
      /\ order_items = [i \in 1..n |-> Len(ks[i].kind.items)]
      /\ tables = [t \in TableIds |-> "available"]
      /\ payments = LedgerPayments(ks)
      /\ receipts = LedgerReceipts(LedgerPayments(ks))
      /\ shifts = <<NewShiftRow(1, 10000, p)>>
      /\ order_seq = n
      /\ receipt_seq = Len(LedgerPayments(ks))
      /\ clock = n + 1
      /\ reqs = [r \in Reqs |-> Idle]
      /\ faults = 0

\* endShift requests of any staff member, two of them at a time
LedgerNext ==
  \/ \E r \in 1..2, u \in Staff, c \in EndingCash : EndShiftRequest(r, u, c)
  \/ \E r \in Reqs : EndSelectShift(r)
  \/ \E r \in Reqs : EndSelectOrders(r)
  \/ \E r \in Reqs : EndUpdateShift(r)
  \/ \E r \in Reqs : EndFinish(r)

LedgerSpec == LedgerInit /\ [][LedgerNext]_vars

\* ------------------------------------------------------------------ numbers
\* a takeaway order and its payment in cash
NumberBodies == {b \in CreateBodies : b.order_type = "takeaway" /\ Len(b.items) = 2}
NumberPayBodies ==
  {b \in PayBodies : b.payment_method = "cash" /\ b.amount = 2200 /\ b.tip_amount = 0}

\* the sequences of a new database, and of one whose sequences were drawn on
\* some thousand times: every createOrder draws an order number, the ones
\* answered 400 for their discount_type too
SeqStarts == {0, 10 ^ PadLength - 2}

NumberInit ==
  /\ orders = <<>>
  /\ order_items = <<>>
  /\ tables = [t \in TableIds |-> "available"]
  /\ payments = <<>>
  /\ receipts = <<>>
  /\ shifts = <<>>
  /\ order_seq \in SeqStarts
  /\ receipt_seq \in SeqStarts
  /\ clock = 0
  /\ reqs = [r \in Reqs |-> Idle]
  /\ faults = 0
  /\ cache = RefreshCache(<<SettingsRow(SchemaTaxRate, FALSE)>>)
  /\ clients = <<>>
  /\ audit_trails = 0
  /\ NoClient

NumberNext ==
  \/ \E r \in Reqs, body \in NumberBodies : CreateOrderRequest(r, body)
  \/ \E r \in Reqs : CreateOrderNumber(r)
  \/ \E r \in Reqs : CreateInsertOrder(r)
  \/ \E r \in Reqs : CreateInsertItem(r)
  \/ \E r \in Reqs : CreateFinish(r)
  \/ \E r \in Reqs, o \in OrderIds, body \in NumberPayBodies : PayRequest(r, o, body)
  \/ \E r \in Reqs : PaySelectOrder(r)
  \/ \E r \in Reqs : PayInsertPayment(r)
  \/ \E r \in Reqs : PayUpdateOrder(r)
  \/ \E r \in Reqs : PayReceiptNumber(r)
  \/ \E r \in Reqs : PayInsertReceipt(r)
  \/ \E r \in Reqs : PayFinish(r)

NumberSpec == NumberInit /\ [][NumberNext]_vars

\* ------------------------------------------------------------ notifications
\* a dine-in order of 11.00, the kitchen's status updates and its payment in
\* cash with a tip
NotifyBodies == {b \in CreateBodies : b.order_type = "dine_in"}
NotifyStatuses == {"preparing", "ready"}
NotifyPayBodies ==
  {b \in PayBodies : b.payment_method = "cash" /\ b.amount = 1100 /\ b.tip_amount = 300}

\* WebSocket clients are connected when the requests arrive
NotifyInit ==
  /\ orders = <<>>
  /\ order_items = <<>>
  /\ tables = [t \in TableIds |-> "available"]
  /\ payments = <<>>
  /\ receipts = <<>>
  /\ shifts = <<>>
  /\ order_seq = 0
  /\ receipt_seq = 0
  /\ clock = 0
  /\ reqs = [r \in Reqs |-> Idle]
  /\ faults = 0
  /\ cache = RefreshCache(<<SettingsRow(SchemaTaxRate, FALSE)>>)
  /\ clients \in {[c \in 1..n |-> <<>>] : n \in 1..MaxClients}
  /\ audit_trails = 0
  /\ NoClient

NotifyNext ==
  \/ \E r \in Reqs, body \in NotifyBodies : CreateOrderRequest(r, body)
  \/ \E r \in Reqs : CreateOrderNumber(r)
  \/ \E r \in Reqs : CreateInsertOrder(r)
  \/ \E r \in Reqs : CreateInsertItem(r)
  \/ \E r \in Reqs : CreateOccupyTable(r)
  \/ \E r \in Reqs : CreateFinish(r)
  \/ \E r \in Reqs, o \in OrderIds, status \in NotifyStatuses, u \in Users :
       UpdateStatusRequest(r, o, status, u)
  \/ \E r \in Reqs : StatusUpdate(r)
  \/ \E r \in Reqs : StatusFinish(r)
  \/ \E r \in Reqs, o \in OrderIds, body \in NotifyPayBodies : PayRequest(r, o, body)
  \/ \E r \in Reqs : PaySelectOrder(r)
  \/ \E r \in Reqs : PayInsertPayment(r)
  \/ \E r \in Reqs : PayUpdateOrder(r)
  \/ \E r \in Reqs : PayReleaseTable(r)
  \/ \E r \in Reqs : PayReceiptNumber(r)
  \/ \E r \in Reqs : PayInsertReceipt(r)
  \/ \E r \in Reqs : PayFinish(r)

NotifySpec == NotifyInit /\ [][NotifyNext]_vars

\* -------------------------------------------------------------- audit trail
\* no handler is between two of its queries
Quiescent == \A r \in Reqs : reqs[r].pc \in {"idle", "done"}

\* the kitchen takes an order up, a server cancels it
AuditStatuses == {"preparing", "cancelled"}

\* every handler with a createAuditTrail whose INSERT may fail, no WebSocket
\* client connected; a request arrives when the ones before it are answered
AuditNext ==
  \/ \E r \in Reqs, body \in NotifyBodies : Quiescent /\ CreateOrderRequest(r, body)
  \/ \E r \in Reqs : CreateOrderNumber(r)
  \/ \E r \in Reqs : CreateInsertOrder(r)
  \/ \E r \in Reqs : CreateInsertItem(r)
  \/ \E r \in Reqs : CreateOccupyTable(r)
  \/ \E r \in Reqs : CreateFinish(r)
  \/ \E r \in Reqs, o \in OrderIds, status \in AuditStatuses, u \in Users :
       Quiescent /\ UpdateStatusRequest(r, o, status, u)
  \/ \E r \in Reqs : StatusUpdate(r)
  \/ \E r \in Reqs : StatusFinish(r)
  \/ \E r \in Reqs, o \in OrderIds, body \in NotifyPayBodies : Quiescent /\ PayRequest(r, o, body)
  \/ \E r \in Reqs : PaySelectOrder(r)
  \/ \E r \in Reqs : PayInsertPayment(r)
  \/ \E r \in Reqs : PayUpdateOrder(r)
  \/ \E r \in Reqs : PayReleaseTable(r)
  \/ \E r \in Reqs : PayReceiptNumber(r)
  \/ \E r \in Reqs : PayInsertReceipt(r)
  \/ \E r \in Reqs : PayFinish(r)
  \/ \E r \in Reqs, u \in Users, c \in StartingCash : Quiescent /\ StartShiftRequest(r, u, c)
  \/ \E r \in Reqs : StartSelectActive(r)
  \/ \E r \in Reqs : StartInsertShift(r)
  \/ \E r \in Reqs : StartFinish(r)
  \/ \E r \in Reqs, u \in Users, c \in EndingCash : Quiescent /\ EndShiftRequest(r, u, c)
  \/ \E r \in Reqs : EndSelectShift(r)
  \/ \E r \in Reqs : EndSelectOrders(r)
  \/ \E r \in Reqs : EndUpdateShift(r)
  \/ \E r \in Reqs : EndFinish(r)
  \/ \E r \in Reqs : AuditFault(r)

AuditSpec == Init /\ [][AuditNext]_vars

\* ---------------------------------------------------------- reconciliation
\* orders of the day are paid while the shift of staff member 1 is active, then
\* the shift is ended; a request arrives when the ones before it are answered
ReconcileNext ==
  \/ \E r \in Reqs, o \in OrderIds, body \in NotifyPayBodies : Quiescent /\ PayRequest(r, o, body)
  \/ \E r \in Reqs : PaySelectOrder(r)
  \/ \E r \in Reqs : PayInsertPayment(r)
  \/ \E r \in Reqs : PayUpdateOrder(r)
  \/ \E r \in Reqs : PayReceiptNumber(r)
  \/ \E r \in Reqs : PayInsertReceipt(r)
  \/ \E r \in Reqs : PayFinish(r)
  \/ \E r \in Reqs, c \in EndingCash : Quiescent /\ EndShiftRequest(r, 1, c)
  \/ \E r \in Reqs : EndSelectShift(r)
  \/ \E r \in Reqs : EndSelectOrders(r)
  \/ \E r \in Reqs : EndUpdateShift(r)
  \/ \E r \in Reqs : EndFinish(r)

ReconcileSpec == LedgerInit /\ [][ReconcileNext]_vars

\* ------------------------------------------------- the client's WebSocket
WS_RECONNECT_INTERVAL == 5000
WS_MAX_RECONNECT_INTERVAL == 30000
\* WS_RECONNECT_DECAY = 1.5
WS_RECONNECT_DECAY_NUM == 3
WS_RECONNECT_DECAY_DEN == 2
PING_INTERVAL == 30000

Min(a, b) == IF a < b THEN a ELSE b

\* Math.min(WS_RECONNECT_INTERVAL * Math.pow(WS_RECONNECT_DECAY, n), WS_MAX_RECONNECT_INTERVAL),
\* as setTimeout takes it: in whole milliseconds
ReconnectDelay(n) ==
  Min((WS_RECONNECT_INTERVAL * WS_RECONNECT_DECAY_NUM ^ n) \div WS_RECONNECT_DECAY_DEN ^ n,
      WS_MAX_RECONNECT_INTERVAL)

Pending(kind) == {t \in timers.pending : t.kind = kind}

\* clearTimeout / clearInterval of a handle, null included
Clear(pending, id) == {t \in pending : t.id # id}

\* the fields and the timers after scheduleReconnect(): with a handle in
\* reconnectTimeout nothing is scheduled
ScheduleReconnect(a, tm) ==
  IF a.reconnectTimeout = 0
  THEN [api |-> [a EXCEPT !.reconnectAttempts = @ + 1, !.reconnectTimeout = tm.next],
        timers |-> [next |-> tm.next + 1,
                    pending |-> tm.pending \cup
                      {[id |-> tm.next, kind |-> "timeout",
                        delay |-> ReconnectDelay(a.reconnectAttempts)]}]]
  ELSE [api |-> a, timers |-> tm]

\* the fields and the sockets after initializeWebSocket(): a new WebSocket unless
\* this.ws is open
InitializeWebSocket(a, ss) ==
  IF a.ws # 0 /\ ss[a.ws].readyState = "OPEN"
  THEN [api |-> a, sockets |-> ss]
  ELSE [api |-> [a EXCEPT !.ws = Len(ss) + 1],
        sockets |-> Append(ss, [readyState |-> "CONNECTING", token |-> a.token])]

\* ws.close()
Close(ss, w) ==
  [ss EXCEPT ![w].readyState = IF @ \in {"CONNECTING", "OPEN"} THEN "CLOSING" ELSE @]

\* the fields, timers and sockets after disconnectWebSocket()
DisconnectWebSocket(a, tm, ss) ==
  [api |-> [a EXCEPT !.reconnectTimeout = 0, !.pingInterval = 0, !.ws = 0],
   timers |-> [tm EXCEPT !.pending = Clear(Clear(@, a.reconnectTimeout), a.pingInterval)],
   sockets |-> IF a.ws # 0 THEN Close(ss, a.ws) ELSE ss]

\* the fields, timers and sockets after logout()
ApiLogout(a, tm, ss) == DisconnectWebSocket([a EXCEPT !.token = FALSE], tm, ss)

server == <<db, reqs, faults, cache, clients, audit_trails>>

\* the open event of a socket: handleWebSocketOpen
HandleWebSocketOpen(w) ==
  /\ w \in 1..Len(sockets)
  /\ sockets[w].readyState = "CONNECTING"
  /\ sockets' = [sockets EXCEPT ![w].readyState = "OPEN"]
  /\ api' = [api EXCEPT !.reconnectTimeout = 0, !.reconnectAttempts = 0,
                         !.pingInterval = timers.next]
  /\ timers' = [next |-> timers.next + 1,
                pending |-> Clear(timers.pending, api.reconnectTimeout) \cup
                  {[id |-> timers.next, kind |-> "interval", delay |-> PING_INTERVAL]}]
  /\ UNCHANGED <<server, call, views>>

\* the close event of a socket, closed by either side or never opened:
\* handleWebSocketClose
HandleWebSocketClose(w) ==
  /\ w \in 1..Len(sockets)
  /\ sockets[w].readyState # "CLOSED"
  /\ sockets' = [sockets EXCEPT ![w].readyState = "CLOSED"]
  /\ LET after == ScheduleReconnect([api EXCEPT !.pingInterval = 0, !.ws = 0],
                                    [timers EXCEPT !.pending = Clear(@, api.pingInterval)])
     IN api' = after.api /\ timers' = after.timers
  /\ UNCHANGED <<server, call, views>>

\* the reconnection timer fires: its callback calls initializeWebSocket and leaves
\* reconnectTimeout as it is
ReconnectTimeout(t) ==
  /\ t \in Pending("timeout")
  /\ Len(sockets) < MaxSockets
  /\ LET after == InitializeWebSocket(api, sockets)
     IN api' = after.api /\ sockets' = after.sockets
  /\ timers' = [timers EXCEPT !.pending = @ \ {t}]
  /\ UNCHANGED <<server, call, views>>

\* wsListeners after addWebSocketListener(event, callback) for every event of
\* events: Map.set
AddWebSocketListener(listeners, events, callback) ==
  [e \in Events |-> IF e \in events THEN callback ELSE listeners[e]]

\* wsListeners after removeWebSocketListener(event) for every event of events:
\* Map.delete
RemoveWebSocketListener(listeners, events) ==
  [e \in Events |-> IF e \in events THEN "none" ELSE listeners[e]]

\* the events the store subscribes to at login, and the kitchen view when mounted
StoreEvents == {"order_created", "order_status_updated", "payment_processed"}
KitchenEvents == {"order_created", "order_status_updated"}

\* usePOSStore.login after the response of posApi.login: the token is set,
\* initializeWebSocket called and the store's listeners are added
LoggedIn ==
  /\ LET after == InitializeWebSocket([api EXCEPT !.token = TRUE], sockets)
     IN /\ api' = [after.api EXCEPT
                    !.wsListeners = AddWebSocketListener(@, StoreEvents, "store")]
        /\ sockets' = after.sockets
  /\ views' = [views EXCEPT !.subscribed = @ \cup {<<"store", e>> : e \in StoreEvents}]

Login ==
  /\ ~api.token
  /\ Len(sockets) < MaxSockets
  /\ LoggedIn
  /\ UNCHANGED <<server, timers, call>>

\* the kitchen view is mounted: its effect adds its listeners
KitchenMount ==
  /\ \A e \in KitchenEvents : <<"kitchen", e>> \notin views.subscribed
  /\ api' = [api EXCEPT !.wsListeners = AddWebSocketListener(@, KitchenEvents, "kitchen")]
  /\ views' = [views EXCEPT !.subscribed = @ \cup {<<"kitchen", e>> : e \in KitchenEvents}]
  /\ UNCHANGED <<server, sockets, timers, call>>

\* the kitchen view is unmounted: the effect's cleanup removes its listeners
KitchenUnmount ==
  /\ \E e \in KitchenEvents : <<"kitchen", e>> \in views.subscribed
  /\ api' = [api EXCEPT !.wsListeners = RemoveWebSocketListener(@, KitchenEvents)]
  /\ views' = [views EXCEPT !.subscribed = @ \ {<<"kitchen", e>> : e \in KitchenEvents}]
  /\ UNCHANGED <<server, sockets, timers, call>>

\* a message {event, data} arrives on an open socket: handleWebSocketMessage calls
\* the callback stored under the event
HandleWebSocketMessage(w, event) ==
  /\ w \in 1..Len(sockets)
  /\ sockets[w].readyState = "OPEN"
  /\ views' = [views EXCEPT !.last =
       [event |-> event, callbacks |-> {api.wsListeners[event]} \ {"none"}]]
  /\ UNCHANGED <<server, api, sockets, timers, call>>

Logout ==
  /\ api.token
  /\ LET after == ApiLogout(api, timers, sockets)
     IN api' = after.api /\ timers' = after.timers /\ sockets' = after.sockets
  /\ UNCHANGED <<server, call, views>>

\* the page is loaded by a logged-in user: the constructor reads the stored token
\* and calls initializeWebSocket
WsInit ==
  /\ orders = <<>>
  /\ order_items = <<>>
  /\ tables = [t \in TableIds |-> "available"]
  /\ payments = <<>>
  /\ receipts = <<>>
  /\ shifts = <<>>
  /\ order_seq = 0
  /\ receipt_seq = 0
  /\ clock = 0
  /\ reqs = [r \in Reqs |-> Idle]
  /\ faults = 0
  /\ cache = RefreshCache(<<SettingsRow(SchemaTaxRate, FALSE)>>)
  /\ clients = <<>>
  /\ audit_trails = 0
  /\ api = [token |-> TRUE, ws |-> 1, reconnectTimeout |-> 0, reconnectAttempts |-> 0,
            pingInterval |-> 0, wsListeners |-> NoListeners]
  /\ sockets = <<[readyState |-> "CONNECTING", token |-> TRUE]>>
  /\ timers = [next |-> 1, pending |-> {}]
  /\ call = NoCall
  /\ views = NoViews

WsNext ==
  \/ \E w \in 1..MaxSockets : HandleWebSocketOpen(w)
  \/ \E w \in 1..MaxSockets : HandleWebSocketClose(w)
  \/ \E t \in timers.pending : ReconnectTimeout(t)
  \/ Login
  \/ Logout

WsSpec == WsInit /\ [][WsNext]_vars

\* the store and the kitchen view subscribe, messages arrive
ListenerNext ==
  \/ \E w \in 1..MaxSockets : HandleWebSocketOpen(w)
  \/ \E w \in 1..MaxSockets : HandleWebSocketClose(w)
  \/ Login
  \/ Logout
  \/ KitchenMount
  \/ KitchenUnmount
  \/ \E w \in 1..MaxSockets, event \in Events : HandleWebSocketMessage(w, event)

ListenerSpec == WsInit /\ [][ListenerNext]_vars

\* ------------------------------------------------------- requestWithRetry
MAX_RETRIES == 2
RETRY_DELAY == 1000
REQUEST_TIMEOUT == 10000

\* an error message is a sequence of pieces of text; the digits of a status code
\* and of a duration are pieces of their own
StatusText ==
  (400 :> "Bad Request") @@ (401 :> "Unauthorized") @@ (403 :> "Forbidden") @@
  (404 :> "Not Found") @@ (429 :> "Too Many Requests") @@ (500 :> "Internal Server Error")
StatusDigits ==
  (400 :> "400") @@ (401 :> "401") @@ (403 :> "403") @@
  (404 :> "404") @@ (429 :> "429") @@ (500 :> "500")

\* String.prototype.includes, on the pieces
Includes(message, needle) == \E i \in 1..Len(message) : message[i] = needle

\* the Error request() throws for a response that is not ok; error is the error
\* member of the response's JSON body, Undefined when there is none
ErrorMessage(status, error) ==
  IF status = 429
  THEN <<"Rate limit exceeded: ", IF error # Undefined THEN error ELSE "Too many requests",
         ". Try again after ", "unknown", " seconds">>
  ELSE IF status = 401 THEN <<"Unauthorized: Invalid or expired token">>
  ELSE IF status = 403 THEN <<"Forbidden: Insufficient permissions">>
  ELSE IF error # Undefined THEN <<error>>
  ELSE <<"API request failed: ", StatusText[status], " (", StatusDigits[status], ")">>

TimedOut(endpoint) ==
  <<"Request to ", "http://localhost:3004", endpoint, " timed out after ", "10000", "ms">>
FailedToFetch == <<"Failed to fetch">>
NoToken == <<"No authentication token available">>

\* the error body the server sends with a status
ServerError(status) ==
  IF status = 400 THEN "Payment method, amount, and user_id are required"
  ELSE IF status = 401 THEN "Invalid credentials"
  ELSE IF status = 404 THEN "Order not found"
  ELSE "Internal server error"

\* what an attempt can end with: a response, the abort after REQUEST_TIMEOUT, a
\* rejected fetch
Outcomes ==
  {[kind |-> "response", status |-> st, error |-> e] :
     st \in {200, 400, 401, 403, 404, 429, 500}, e \in {Undefined} \cup {ServerError(400)}}
  \cup {[kind |-> "timeout", status |-> 0, error |-> Undefined],
        [kind |-> "network", status |-> 0, error |-> Undefined]}

\* catch (error) of requestWithRetry
Catch(c, error) ==
  IF c.retries > 0 /\ ~Includes(error, "401") /\ ~Includes(error, "400")
  THEN [c EXCEPT !.phase = "wait", !.error = error]
  ELSE [c EXCEPT !.phase = "thrown", !.error = error]

\* a public method calls requestWithRetry(endpoint, options)
StartCall(endpoint) ==
  /\ call.phase \in {"none", "returned", "thrown"}
  /\ endpoint = "/auth/login" => Len(sockets) < MaxSockets
  /\ call' = [phase |-> "request", endpoint |-> endpoint, retries |-> MAX_RETRIES,
              delay |-> RETRY_DELAY, attempts |-> 0, sent |-> 0, waits |-> <<>>,
              status |-> 0, error |-> <<>>, seen |-> <<>>]
  /\ UNCHANGED <<server, api, sockets, timers, views>>

\* request(): without a token only the login is sent
Request ==
  /\ call.phase = "request"
  /\ LET c == [call EXCEPT !.attempts = @ + 1] IN
     call' = IF ~api.token /\ call.endpoint # "/auth/login"
             THEN Catch([c EXCEPT !.seen = Append(@, NoToken)], NoToken)
             ELSE [c EXCEPT !.phase = "fetch", !.sent = @ + 1]
  /\ UNCHANGED <<server, api, sockets, timers, views>>

\* the attempt ends: the response is returned, or mapped to an Error which the
\* catch of requestWithRetry gets; a 401 logs the client out; the returned
\* response of the login is the continuation of posApi.login and of the store
Receive(outcome) ==
  /\ call.phase = "fetch"
  /\ LET message == IF outcome.kind = "timeout" THEN TimedOut(call.endpoint)
                    ELSE IF outcome.kind = "network" THEN FailedToFetch
                    ELSE ErrorMessage(outcome.status, outcome.error)
         c == [call EXCEPT !.status = outcome.status]
     IN IF outcome.kind = "response" /\ outcome.status = 200
        THEN /\ call' = [c EXCEPT !.phase = "returned", !.seen = Append(@, <<>>)]
             /\ IF call.endpoint = "/auth/login"
                THEN LoggedIn /\ UNCHANGED timers
                ELSE UNCHANGED <<api, sockets, timers, views>>
        ELSE /\ call' = Catch([c EXCEPT !.seen = Append(@, message)], message)
             /\ IF outcome.kind = "response" /\ outcome.status = 401
                THEN /\ LET after == ApiLogout(api, timers, sockets)
                        IN api' = after.api /\ timers' = after.timers /\ sockets' = after.sockets
                     /\ UNCHANGED views
                ELSE UNCHANGED <<api, sockets, timers, views>>
  /\ UNCHANGED server

\* the retry made after the same delay as the one before
RetryTimeoutFlat ==
  /\ call.phase = "wait"
  /\ call' = [call EXCEPT !.phase = "request", !.retries = @ - 1,
                          !.waits = Append(@, call.delay)]
  /\ UNCHANGED <<server, api, sockets, timers, views>>

\* the delay before a retry has passed: requestWithRetry(endpoint, options,
\* retries - 1, delay * 2)
RetryTimeout ==
  /\ call.phase = "wait"
  /\ call' = [call EXCEPT !.phase = "request", !.retries = @ - 1, !.delay = @ * 2,
                          !.waits = Append(@, call.delay)]
  /\ UNCHANGED <<server, api, sockets, timers, views>>

Endpoints == {"/auth/login", "/orders"}

RetryNext ==
  \/ \E endpoint \in Endpoints : StartCall(endpoint)
  \/ Request
  \/ \E outcome \in Outcomes : Receive(outcome)
  \/ RetryTimeout

\* a call that has been started goes on: the fetch is answered or aborted after
\* REQUEST_TIMEOUT, the delay of a retry passes
RetryStep == Request \/ (\E outcome \in Outcomes : Receive(outcome)) \/ RetryTimeout

RetrySpec == WsInit /\ [][RetryNext]_vars /\ WF_vars(RetryStep)

\* ------------------------------------------- requestWithRetry and the server
\* the body of the store's createOrder for one item on table 1, and of its
\* processPayment of the order's total in cash
ClientOrderBody ==
  [table_id |-> 1, order_type |-> "dine_in", items |-> <<Item(1, 1000, <<>>)>>,
   user_id |-> 1, discount_type |-> Undefined, discount_value |-> 0, status |-> "open"]
ClientPayBody ==
  [payment_method |-> "cash", amount |-> 1100, tip_amount |-> 0,
   reference_number |-> Undefined, user_id |-> 1]
PaymentEndpoint == "/orders/1/payment"

\* a logged-in client; the database is empty or holds order 1, ready, on table 1
ClientInit ==
  \E n \in 0..1 :
    /\ cache = RefreshCache(<<SettingsRow(SchemaTaxRate, FALSE)>>)
    /\ orders = [i \in 1..n |-> [NewOrderRow(ClientOrderBody, 1, 1) EXCEPT !.status = "ready"]]
    /\ order_items = [i \in 1..n |-> 1]
    /\ tables = [t \in TableIds |-> IF t = 1 /\ n = 1 THEN "occupied" ELSE "available"]
    /\ payments = <<>>
    /\ receipts = <<>>
    /\ shifts = <<>>
    /\ order_seq = n
    /\ receipt_seq = 0
    /\ clock = n
    /\ reqs = [r \in Reqs |-> Idle]
    /\ faults = 0
    /\ clients = <<>>
    /\ audit_trails = n
    /\ api = [token |-> TRUE, ws |-> 1, reconnectTimeout |-> 0, reconnectAttempts |-> 0,
              pingInterval |-> 0, wsListeners |-> NoListeners]
    /\ sockets = <<[readyState |-> "CONNECTING", token |-> TRUE]>>
    /\ timers = [next |-> 1, pending |-> {}]
    /\ call = NoCall
    /\ views = NoViews

\* posApi.createOrder and posApi.processPayment, one call of the client
ClientCreateOrder == orders = <<>> /\ call.phase = "none" /\ StartCall("/orders")
ClientProcessPayment == OrderExists(1) /\ call.phase = "none" /\ StartCall(PaymentEndpoint)

\* the request of the attempt in progress reaches the server
Arrive ==
  /\ call.phase = "fetch"
  /\ call.attempts \in Reqs
  /\ IF call.endpoint = PaymentEndpoint
     THEN PayRequest(call.attempts, 1, ClientPayBody)
     ELSE CreateOrderRequest(call.attempts, ClientOrderBody)

\* the response of the server to the attempt in progress
Responded ==
  /\ call.phase = "fetch"
  /\ call.attempts \in Reqs
  /\ reqs[call.attempts].pc = "done"
  /\ LET status == reqs[call.attempts].resp IN
     Receive([kind |-> "response", status |-> status,
              error |-> IF status = 200 THEN Undefined ELSE ServerError(status)])

\* REQUEST_TIMEOUT passes while the server is handling the request
Abort ==
  /\ call.phase = "fetch"
  /\ call.attempts \in Reqs
  /\ reqs[call.attempts].op # "idle"
  /\ reqs[call.attempts].pc # "done"
  /\ Receive([kind |-> "timeout", status |-> 0, error |-> Undefined])

ClientNext ==
  \/ ClientCreateOrder
  \/ ClientProcessPayment
  \/ Request
  \/ Arrive
  \/ Responded
  \/ Abort
  \/ RetryTimeout
  \/ \E r \in Reqs : CreateOrderNumber(r)
  \/ \E r \in Reqs : CreateInsertOrder(r)
  \/ \E r \in Reqs : CreateInsertItem(r)
  \/ \E r \in Reqs : CreateOccupyTable(r)
  \/ \E r \in Reqs : CreateFinish(r)
  \/ \E r \in Reqs : PaySelectOrder(r)
  \/ \E r \in Reqs : PayInsertPayment(r)
  \/ \E r \in Reqs : PayUpdateOrder(r)
  \/ \E r \in Reqs : PayReleaseTable(r)
  \/ \E r \in Reqs : PayReceiptNumber(r)
  \/ \E r \in Reqs : PayInsertReceipt(r)
  \/ \E r \in Reqs : PayFinish(r)

ClientSpec == ClientInit /\ [][ClientNext]_vars

\* ================================================================== claims
Terminal == {"paid", "cancelled"}
Active == Statuses \ Terminal
Payable == {"ready", "served"}

\* the edges of the lifecycle diagram
Reachable(S, T) ==
  \/ <<S, T>> \in {<<"open", "sent_to_kitchen">>, <<"sent_to_kitchen", "preparing">>,
                   <<"preparing", "ready">>, <<"ready", "served">>}
  \/ S \in Payable /\ T = "paid"
  \/ S \in Active /\ T = "cancelled"

PaymentsOf(rows, o) == {k \in 1..Len(rows) : rows[k].order_id = o}
Succeeded(r, op) == reqs[r].op = op /\ reqs[r].pc = "done" /\ reqs[r].resp = 200

\* C1: a status update whose target T is not reachable from the order's status S
\* in one step of the lifecycle diagram is answered with an error and leaves the
\* order's status S.
C1_TransitionSound ==
  [][\A r \in Reqs :
       (/\ At(r, "status", "update")
        /\ reqs'[r].pc # "update"
        /\ OrderExists(reqs[r].o)
        /\ ~Reachable(orders[reqs[r].o].status, reqs[r].status))
       => /\ orders'[reqs[r].o].status = orders[reqs[r].o].status
          /\ reqs'[r].resp >= 400]_vars

\* C2: once an order is paid or cancelled its status never changes again.
C2_TerminalIsFinal ==
  [][\A o \in 1..Len(orders) :
       orders[o].status \in Terminal => orders'[o].status = orders[o].status]_vars

\* C3: of two pay requests on the same order at most one is answered with
\* success, and once one has succeeded exactly one Payment references the order.
C3_PayOnce ==
  \A r1, r2 \in Reqs :
    (r1 # r2 /\ Succeeded(r1, "pay") /\ reqs[r2].op = "pay" /\ reqs[r2].pc = "done"
       /\ reqs[r1].o = reqs[r2].o)
    => /\ reqs[r2].resp # 200
       /\ Cardinality(PaymentsOf(payments, reqs[r1].o)) = 1

\* C4: a pay request that fails leaves nothing behind: when it is answered with
\* a failure, the Payment row it had inserted is not among the stored payments.
C4_PayAllOrNothing ==
  [][\A r \in Reqs :
       (reqs[r].op = "pay" /\ reqs[r].resp = 0 /\ reqs'[r].resp = 500
          /\ "payment" \in DOMAIN reqs[r])
       => reqs[r].payment \notin 1..Len(payments')]_vars

\* C5: two createOrder requests for dine_in on the same table are never both
\* answered with success while both of their orders hold the table.
C5_TableMutualExclusion ==
  \A r1, r2 \in Reqs :
    (r1 # r2 /\ Succeeded(r1, "create") /\ Succeeded(r2, "create")
       /\ orders[reqs[r1].o].order_type = "dine_in"
       /\ orders[reqs[r2].o].order_type = "dine_in"
       /\ orders[reqs[r1].o].table_id = orders[reqs[r2].o].table_id)
    => (orders[reqs[r1].o].status \in Terminal \/ orders[reqs[r2].o].status \in Terminal)

\* C6: every table is referenced by at most one dine-in order whose status is
\* open, sent_to_kitchen, preparing, ready or served.
HoldersOf(t) ==
  {o \in 1..Len(orders) : /\ orders[o].order_type = "dine_in"
                          /\ orders[o].table_id = t
                          /\ orders[o].status \in Active}

C6_OneActiveOrderPerTable == \A t \in TableIds : Cardinality(HoldersOf(t)) <= 1

\* C7: when no request is in progress, an order is paid if and only if exactly
\* one Payment references it.
C7_PaidIffOnePayment ==
  Quiescent =>
    \A o \in 1..Len(orders) :
      (orders[o].status = "paid") <=> (Cardinality(PaymentsOf(payments, o)) = 1)

\* C8: a Payment is recorded for an order only while the order's status is
\* ready or served.
C8_PayOnlyWhenReadyOrServed ==
  [][\A o \in 1..Len(orders) :
       PaymentsOf(payments', o) # PaymentsOf(payments, o)
         => orders[o].status \in Payable]_vars

\* C9: every recorded Payment has the amount of its order's total, a method among
\* cash, card and mobile, and a non-empty reference when the method is card or
\* mobile.
C9_PaymentValidated ==
  \A k \in 1..Len(payments) :
    /\ payments[k].amount = orders[payments[k].order_id].total_amount
    /\ payments[k].payment_method \in {"cash", "card", "mobile"}
    /\ payments[k].payment_method \in {"card", "mobile"}
         => payments[k].reference_number \notin {Undefined, ""}

\* C10: each staff identifier has at most one shift with status active.
C10_OneActiveShift == \A u \in Users : Cardinality(ActiveShifts(u)) <= 1

\* C11: a startShift whose lookup finds an active shift of the staff member
\* answers 400 (ShiftAlreadyActive) at once, inserts no shift and leaves every
\* shift row, the active one's starting cash included, as it was
C11_ShiftAlreadyActive ==
  [][\A r \in Reqs :
       (/\ At(r, "start", "select_active")
        /\ ActiveShifts(reqs[r].user_id) # {}
        /\ reqs'[r] # reqs[r])
       => (reqs'[r].pc = "done" /\ reqs'[r].resp = 400 /\ shifts' = shifts)]_vars

C11_Refused ==
  \E r \in Reqs :
    /\ Succeeded(1, "start")
    /\ r > 1 /\ reqs[r].op = "start" /\ reqs[r].pc = "done" /\ reqs[r].resp = 400
    /\ Len(shifts) = 1 /\ shifts[1].status = "active"
    /\ shifts[1].starting_cash \in StartingCash

\* C12: once a shift row is closed, no step changes any of its fields
C12_ClosedIsFinal ==
  [][\A k \in 1..Len(shifts) : shifts[k].status = "closed" => shifts'[k] = shifts[k]]_vars

\* the pre-discount amount of an item list: quantity x unit price of every line
\* plus every modifier's price adjustment
ItemsSum(items) ==
  SumSeq([i \in 1..Len(items) |->
            items[i].quantity * items[i].unit_price + SumSeq(items[i].modifiers)])

\* a createOrder past its validation, and one whose order row is written
Admitted(r) == reqs[r].op = "create" /\ "body" \in DOMAIN reqs[r]
Created(r) == Admitted(r) /\ reqs[r].o # 0

\* the inputs the pricing contract calls valid: at least one line, positive
\* quantities, prices not below 0, no discount or a percentage in 0..100 or a
\* fixed amount between 0 and the subtotal
ValidItems(items) ==
  /\ items # <<>>
  /\ \A i \in 1..Len(items) : items[i].quantity > 0 /\ items[i].unit_price >= 0

ValidInput(body) ==
  /\ ValidItems(body.items)
  /\ \/ body.discount_type = Undefined
     \/ body.discount_type = "percentage" /\ body.discount_value \in 0..100
     \/ body.discount_type = "fixed" /\ body.discount_value \in 0..ItemsSum(body.items)

\* C15: every order row created from valid input satisfies total_amount =
\* subtotal - discount_amount + tax_amount over its stored fields
C15_TotalIdentity ==
  \A r \in Reqs :
    (Created(r) /\ ValidInput(reqs[r].body)) =>
      LET order == orders[reqs[r].o] IN
      order.total_amount = order.subtotal - order.discount_amount + order.tax_amount

\* C16: the subtotal stored on a created order is the pre-discount amount of
\* its item list
C16_StoredSubtotal ==
  \A r \in Reqs :
    (Created(r) /\ ValidInput(reqs[r].body)) =>
      orders[reqs[r].o].subtotal = ItemsSum(reqs[r].body.items)

\* C17: a percentage discount above 100 never gets past the discount check, and
\* one in 0..100 is stored as subtotal x d / 100
C17_PercentageDiscount ==
  \A r \in Reqs :
    (Admitted(r) /\ reqs[r].body.discount_type = "percentage") =>
      LET d == reqs[r].body.discount_value IN
      /\ d > 100 => reqs[r].pc = "order_number"
      /\ (d \in 0..100 /\ reqs[r].o # 0) =>
           orders[reqs[r].o].discount_amount
             = ToNumeric2(ItemsSum(reqs[r].body.items) * d * (Scale \div 100))

\* C18: a fixed discount below 0 or above the subtotal never gets past the
\* discount check; no order is discounted by more than its pre-discount
\* subtotal and no order has a negative total
C18_FixedDiscountInRange ==
  /\ \A r \in Reqs :
       (Admitted(r) /\ reqs[r].body.discount_type = "fixed"
          /\ (\/ reqs[r].body.discount_value < 0
              \/ reqs[r].body.discount_value > ItemsSum(reqs[r].body.items)))
       => reqs[r].pc = "order_number"
  /\ \A r \in Reqs :
       Created(r) => orders[reqs[r].o].discount_amount <= ItemsSum(reqs[r].body.items)
  /\ \A o \in 1..Len(orders) : orders[o].total_amount >= 0

\* C19: with a tax rate r configured in business_settings, every order row
\* created from valid input has tax_amount = (subtotal - discount_amount) x r /
\* 100 over its stored fields
C19_TaxFromRate ==
  \A r \in Reqs :
    (/\ Created(r) /\ ValidInput(reqs[r].body)
     /\ cache.businessSettings.tax_rate.type = "string") =>
      LET order == orders[reqs[r].o] IN
      order.tax_amount
        = ToNumeric2(((order.subtotal - order.discount_amount) * Scale
                        * cache.businessSettings.tax_rate.num) \div 100)

\* C20: no createOrder gets past validation with an empty item list, a line
\* whose quantity is not positive or a line whose price is negative
C20_ItemsValidated ==
  \A r \in Reqs :
    Admitted(r) => ValidItems(reqs[r].body.items)

\* the orders the ledger counts for staff member s and a shift started at t
Counted(o, s, t) ==
  orders[o].server_id = s /\ orders[o].status = "paid" /\ orders[o].created_at >= t

\* the method of the payments row of order o
PaidBy(o, method) ==
  \E p \in 1..Len(payments) :
    payments[p].order_id = o /\ payments[p].payment_method = method

\* C13: the sums an endShift computes are the sum of total_amount, the sum of
\* tip_amount and the number of exactly the orders with server = s, status =
\* paid and created_at >= t when it queries them, and the row it closes stores
\* those sums
C13_ShiftTotals ==
  [][\A r \in Reqs :
       /\ (At(r, "end", "select_orders") /\ reqs'[r].pc = "update_shift") =>
            LET s == reqs[r].user_id
                t == shifts[reqs[r].shift.id].start_time
                sums == reqs'[r].sums
            IN /\ sums.total_sales
                    = SumSeq([o \in 1..Len(orders) |->
                               IF Counted(o, s, t) THEN orders[o].total_amount ELSE 0])
               /\ sums.total_tips
                    = SumSeq([o \in 1..Len(orders) |->
                               IF Counted(o, s, t) THEN orders[o].tip_amount ELSE 0])
               /\ sums.total_orders
                    = SumSeq([o \in 1..Len(orders) |-> IF Counted(o, s, t) THEN 1 ELSE 0])
       /\ (At(r, "end", "update_shift") /\ reqs'[r].pc = "audit") =>
            LET row == shifts'[reqs[r].shift.id] IN
            /\ row.status = "closed"
            /\ row.total_sales = reqs[r].sums.total_sales
            /\ row.total_tips = reqs[r].sums.total_tips
            /\ row.total_orders = reqs[r].sums.total_orders]_vars

C13_Closed ==
  /\ Succeeded(1, "end")
  /\ Len(orders) = 2
  /\ shifts[1].status = "closed"
  /\ shifts[1].total_orders = 1 /\ shifts[1].total_sales = 1100 /\ shifts[1].total_tips = 300
  /\ \E o \in 1..Len(orders) :
       /\ orders[o].status = "paid" /\ orders[o].server_id = shifts[1].user_id
       /\ orders[o].created_at < shifts[1].start_time

\* C14: the cash, card and mobile sales an endShift stores are the sums of
\* total_amount over the counted orders whose payments row has that method
C14_MethodSales ==
  [][\A r \in Reqs :
       (At(r, "end", "update_shift") /\ reqs'[r].pc = "audit") =>
         LET s == reqs[r].user_id
             t == shifts[reqs[r].shift.id].start_time
             row == shifts'[reqs[r].shift.id]
             by(method) == SumSeq([o \in 1..Len(orders) |->
                                    IF Counted(o, s, t) /\ PaidBy(o, method)
                                    THEN orders[o].total_amount ELSE 0])
         IN /\ row.cash_sales = by("cash")
            /\ row.card_sales = by("card")
            /\ row.mobile_sales = by("mobile")]_vars

\* C23: an order number drawn by a createOrder is larger than every order number
\* drawn before it that a request or an order row still holds, and so is a
\* receipt number drawn by a payment; hence the numbers are pairwise distinct
C23_NumbersIncrease ==
  [][\A r \in Reqs :
       /\ ("orderNumber" \notin DOMAIN reqs[r] /\ "orderNumber" \in DOMAIN reqs'[r]) =>
            /\ \A o \in 1..Len(orders) : orders[o].order_number < reqs'[r].orderNumber
            /\ \A q \in Reqs :
                 "orderNumber" \in DOMAIN reqs[q] => reqs[q].orderNumber < reqs'[r].orderNumber
       /\ ("receiptNumber" \notin DOMAIN reqs[r] /\ "receiptNumber" \in DOMAIN reqs'[r]) =>
            /\ \A i \in 1..Len(receipts) : receipts[i].receipt_number < reqs'[r].receiptNumber
            /\ \A q \in Reqs :
                 "receiptNumber" \in DOMAIN reqs[q]
                   => reqs[q].receiptNumber < reqs'[r].receiptNumber]_vars

\* C21: a createOrder that is answered 500 has not inserted an order row
C21_CreateAllOrNothing ==
  [][\A r \in Reqs :
       (reqs[r].op = "create" /\ reqs[r].resp # 500 /\ reqs'[r].resp = 500)
         => reqs[r].o = 0]_vars

\* C22: every order row is inserted with status open or sent_to_kitchen
C22_InitialStatus ==
  [][\A o \in 1..Len(orders') :
       o > Len(orders) => orders'[o].status \in {"open", "sent_to_kitchen"}]_vars

\* the writes of a handler that has reached its createAuditTrail, as far as no
\* other request can undo them: the order row with all its items, the payment
\* and the receipt
WritesStored(q) ==
  /\ OrderExists(q.o)
  /\ q.op = "create" =>
       orders[q.o].order_number = q.orderNumber /\ order_items[q.o] = Len(q.body.items)
  /\ q.op = "pay" =>
       /\ q.payment \in 1..Len(payments) /\ payments[q.payment].order_id = q.o
       /\ \E i \in 1..Len(receipts) :
            receipts[i].receipt_number = q.receiptNumber /\ receipts[i].order_id = q.o

\* a handler takes its step from createAuditTrail to the response
Finishes(r) == reqs[r].pc = "audit" /\ reqs'[r].pc = "done"

\* C24: a message reaches a client only in the last step of a handler whose
\* writes are all stored: the step writes nothing itself, and the message is the
\* event of that handler
C24_BroadcastAfterWrites ==
  [][\A c \in 1..Len(clients) :
       clients'[c] # clients[c] =>
         \E r \in Reqs :
           /\ Finishes(r)
           /\ clients'[c] = Append(clients[c], EventOf(reqs[r]))
           /\ WritesStored(reqs[r])
           /\ db' = db]_vars

C24_AllEventsSeen ==
  \E c \in 1..Len(clients) :
    /\ Len(clients[c]) = 3
    /\ {clients[c][i].event : i \in 1..3}
         = {"order_created", "order_status_updated", "payment_processed"}
    /\ Len(receipts) = 1

\* C25: a create, status update or payment that has stored its writes answers
\* 200, whatever happens to its broadcast
C25_BroadcastFailureSwallowed ==
  [][\A r \in Reqs :
       (Finishes(r) /\ reqs[r].op \in {"create", "status", "pay"}) => reqs'[r].resp = 200]_vars

\* C26: a broadcast misses at most the one client whose delivery failed
C26_DeliveryIsolated ==
  [][\A r \in Reqs :
       (Finishes(r) /\ reqs[r].op \in {"create", "status", "pay"}) =>
         Cardinality({c \in 1..Len(clients) : clients'[c] = clients[c]}) <= 1]_vars

\* C27: once every request is answered and none of them failed, the last
\* order_status_updated message a client got for an unpaid order carries the
\* order's stored status
C27_LastEventIsFinalStatus ==
  \A c \in 1..Len(clients), o \in 1..Len(orders) :
    LET evs == {i \in 1..Len(clients[c]) :
                  clients[c][i].event = "order_status_updated" /\ clients[c][i].order_id = o}
    IN (/\ Quiescent
        /\ \A r \in Reqs : reqs[r].resp # 500
        /\ orders[o].status # "paid"
        /\ evs # {})
       => clients[c][CHOOSE i \in evs : \A j \in evs : j <= i].status = orders[o].status

\* C28: a handler whose audit INSERT failed answers 200 and changes no table,
\* as it does when the INSERT succeeds
C28_AuditFailureSwallowed ==
  [][\A r \in Reqs :
       (Finishes(r) /\ audit_trails' = audit_trails) => (reqs'[r].resp = 200 /\ db' = db)]_vars

C28_AuditLost ==
  /\ faults = 1
  /\ audit_trails = 0
  /\ \E r \in Reqs : reqs[r].pc = "done" /\ reqs[r].resp = 200

\* C29: the receipt of an order paid with its total_amount has that
\* total_amount
C29_ReceiptTotal ==
  \A i \in 1..Len(receipts) :
    LET o == receipts[i].order_id IN
    (\A p \in 1..Len(payments) :
       payments[p].order_id = o => payments[p].amount = orders[o].total_amount)
    => receipts[i].total_amount = orders[o].total_amount

\* C30: a status update or a payment that finds no order, and an endShift that
\* finds no active shift, answer 404 and change no table
C30_NotFound ==
  [][\A r \in Reqs :
       (/\ reqs'[r] # reqs[r]
        /\ \/ At(r, "status", "update") /\ ~OrderExists(reqs[r].o)
           \/ At(r, "pay", "select_order") /\ ~OrderExists(reqs[r].o)
           \/ At(r, "end", "select_shift") /\ ActiveShifts(reqs[r].user_id) = {})
       => (reqs'[r].pc = "done" /\ reqs'[r].resp = 404 /\ db' = db)]_vars

C30_AllNotFound ==
  /\ orders = <<>> /\ payments = <<>> /\ receipts = <<>> /\ shifts = <<>>
  /\ \A op \in {"status", "pay", "end"} :
       \E r \in Reqs : reqs[r].op = op /\ reqs[r].pc = "done" /\ reqs[r].resp = 404

\* C36: a logged-in client whose sockets are all closed has a reconnection
\* timer pending
C36_ReconnectPending ==
  (api.token /\ \A w \in 1..Len(sockets) : sockets[w].readyState = "CLOSED")
    => Pending("timeout") # {}

\* C37: a logged-out client has no reconnection timer pending, no ping timer
\* running and no socket connecting or open
C37_QuietAfterLogout ==
  ~api.token =>
    /\ timers.pending = {}
    /\ \A w \in 1..Len(sockets) : sockets[w].readyState \notin {"CONNECTING", "OPEN"}

\* C38: an incoming message of an event is handed to every subscriber of the
\* event that has not unsubscribed
C38_AllListenersInvoked ==
  [][views'.last # views.last =>
       \A sub \in views.subscribed :
         sub[2] = views'.last.event => sub[1] \in views'.last.callbacks]_vars

\* C31: an attempt answered 400 or 401 is the last of its call: the error is
\* thrown to the caller without a retry
C31_NoRetryOnClientError ==
  [][(call.phase = "fetch" /\ call'.phase # "fetch" /\ call'.status \in {400, 401})
       => call'.phase = "thrown"]_vars

\* the attempts of the call in progress, its waits and its result
RetryBounded ==
  call.phase # "none" =>
    /\ call.attempts <= MAX_RETRIES + 1
    /\ Len(call.waits) = IF call.phase = "request" THEN call.attempts ELSE call.attempts - 1
    /\ \A k \in 1..Len(call.waits) : call.waits[k] = RETRY_DELAY * 2 ^ (k - 1)
    /\ call.phase \in {"returned", "thrown"} => Len(call.seen) = call.attempts
    /\ \A k \in 1..(Len(call.seen) - 1) : call.seen[k] # <<>>
    /\ call.phase = "returned" => call.seen[Len(call.seen)] = <<>>
    /\ call.phase = "thrown" => call.error # <<>> /\ call.error = call.seen[Len(call.seen)]

\* C32: a call makes at most MAX_RETRIES + 1 attempts, waits RETRY_DELAY * 2^k
\* before retry k, returns the first response that is ok, throws the error of
\* its last attempt otherwise, and ends
C32_RetryTerminates ==
  /\ []RetryBounded
  /\ (call.phase \in {"request", "fetch", "wait"}) ~> (call.phase \in {"returned", "thrown"})

C32_AllRetriesUsed ==
  /\ call.phase = "thrown"
  /\ call.attempts = MAX_RETRIES + 1
  /\ call.waits = <<1000, 2000>>
  /\ call.sent = MAX_RETRIES + 1

\* C33: the one createOrder call of the client leaves at most one order, its
\* one processPayment call at most one payment of the order
C33_AtMostOnce ==
  /\ (call.phase # "none" /\ call.endpoint = "/orders") => Len(orders) <= 1
  /\ (call.phase # "none" /\ call.endpoint = PaymentEndpoint) =>
       Cardinality({p \in 1..Len(payments) : payments[p].order_id = 1}) <= 1

\* C34: between requests a table is occupied exactly when an active dine-in
\* order references it
C34_OccupiedIffActiveOrder ==
  Quiescent =>
    \A t \in TableIds :
      tables[t] = "occupied" <=>
        \E o \in 1..Len(orders) :
          /\ orders[o].order_type = "dine_in"
          /\ orders[o].table_id = t
          /\ orders[o].status \in Active

\* the orders of staff member s whose only payment was made by a request
\* answered before request r arrived
PaidBefore(r, s) ==
  {o \in 1..Len(orders) :
     /\ orders[o].server_id = s
     /\ orders[o].status = "paid"
     /\ Cardinality({p \in 1..Len(payments) : payments[p].order_id = o}) = 1
     /\ \E q \in 1..(r - 1) : Succeeded(q, "pay") /\ reqs[q].o = o}

\* C35: the closed shift of staff member 1 counts every order of that staff
\* member that was paid while the shift was active, whenever it was created
C35_PaidInShiftCounted ==
  \A r \in Reqs :
    Succeeded(r, "end") => shifts[1].total_orders >= Cardinality(PaidBefore(r, 1))

\* ---------------------------------------------------------------------------
\* the order panel, the store's cart and POST /api/orders
\* ---------------------------------------------------------------------------

\* addToCart: a new line of quantity 1 whose total_price is the item's price;
\* the modifiers are kept on the line, their price adjustments are not priced
AddToCart(cart, price, modifiers) ==
  Append(cart, [menu_item_id |-> 1, quantity |-> 1, unit_price |-> price,
                total_price |-> price, modifiers |-> modifiers])

\* updateCartItem: the line's quantity and total_price = unit_price * quantity,
\* lines of quantity 0 or less dropped
UpdateCartItem(cart, id, quantity) ==
  SelectSeq([i \in 1..Len(cart) |->
               IF i = id
               THEN [cart[i] EXCEPT !.quantity = quantity,
                                    !.total_price = cart[i].unit_price * quantity]
               ELSE cart[i]],
            LAMBDA item : item.quantity > 0)

\* the carts of the model: one item, the item twice, an item with a modifier
\* of 1.50, two lines
Carts ==
  { AddToCart(<<>>, 1000, <<>>),
    UpdateCartItem(AddToCart(<<>>, 1000, <<>>), 1, 2),
    AddToCart(<<>>, 1000, <<150>>),
    UpdateCartItem(AddToCart(AddToCart(<<>>, 1000, <<>>), 500, <<>>), 2, 3) }

\* discountType and discountValue of the store: none, or what the discount
\* dialog sets (a percentage up to 100, an amount in minor units)
CartDiscounts == { <<Undefined, 0>>, <<"percentage", 10>>, <<"amount", 500>> }

\* what the order panel displays for the cart, in 1/Scale units: the tax is
\* a tenth of the discounted subtotal
PanelTotals(cart, discountType, discountValue) ==
  LET subtotal == SumSeq([i \in 1..Len(cart) |-> cart[i].total_price])
      discountAmount ==
        IF discountType # Undefined /\ discountValue # 0
        THEN IF discountType = "percentage"
             THEN subtotal * discountValue * (Scale \div 100)
             ELSE discountValue * Scale
        ELSE 0
      discountedSubtotal == subtotal * Scale - discountAmount
      taxAmount == discountedSubtotal \div 10
  IN [discountAmount |-> ToNumeric2(discountAmount),
      total |-> ToNumeric2(discountedSubtotal + taxAmount)]

\* the body the store's createOrder posts for the cart
OrderData(cart, discountType, discountValue, orderType, sendToKitchen) ==
  [table_id |-> IF orderType = "dine_in" THEN 1 ELSE 0,
   order_type |-> orderType,
   items |-> [i \in 1..Len(cart) |->
                [menu_item_id |-> cart[i].menu_item_id, quantity |-> cart[i].quantity,
                 unit_price |-> cart[i].unit_price, total_price |-> cart[i].total_price,
                 modifiers |-> cart[i].modifiers]],
   user_id |-> 1,
   discount_type |-> discountType, discount_value |-> discountValue,
   status |-> IF sendToKitchen THEN "sent_to_kitchen" ELSE "open"]

\* the store posts the order of a cart; the server prices and stores it
CartNext ==
  \/ \E cart \in Carts, d \in CartDiscounts, orderType \in {"dine_in", "takeaway"},
        sendToKitchen \in BOOLEAN :
       CreateOrderRequest(1, OrderData(cart, d[1], d[2], orderType, sendToKitchen))
  \/ \E r \in Reqs : CreateOrderNumber(r)
  \/ \E r \in Reqs : CreateInsertOrder(r)
  \/ \E r \in Reqs : CreateInsertItem(r)
  \/ \E r \in Reqs : CreateOccupyTable(r)
  \/ \E r \in Reqs : CreateFinish(r)

CartSpec == PricingInit /\ [][CartNext]_vars

\* the panel's figures for the body of a request: the body carries the cart's
\* lines and the store's discount unchanged
PanelOf(body) == PanelTotals(body.items, body.discount_type, body.discount_value)

\* C39: every order the store posts for a cart is accepted (never answered
\* 400), and the order row inserted for it carries the discount_amount and
\* total_amount the order panel displayed for that cart
C39_PanelMatchesOrder ==
  [][\A r \in Reqs :
       Admitted(r) =>
         /\ reqs'[r].resp # 400
         /\ Len(orders') = Len(orders) + 1 =>
              /\ orders'[Len(orders')].discount_amount = PanelOf(reqs[r].body).discountAmount
              /\ orders'[Len(orders')].total_amount = PanelOf(reqs[r].body).total]_vars

\* ---------------------------------------------------------------------------
\* the store's endShift: getPendingOrders, then POST /shifts/end
\* ---------------------------------------------------------------------------

\* the status list of getPendingOrders' query string
PendingStatuses == {"open", "sent_to_kitchen", "preparing", "ready"}

\* the staff member logged in at the terminal
CurrentUser == 1

\* what the shift dialog may pass as endingCash
StoreEndingCash == EndingCash \cup {0 - 100}

\* GET /orders?user_id=..&status=..: the query string's user_id and the status
\* list split at the commas
GetOrdersRequest(r, user_id, status) ==
  /\ CanArrive(r)
  /\ reqs' = [reqs EXCEPT ![r] =
       [op |-> "orders", pc |-> "select", resp |-> 0, o |-> 0,
        user_id |-> user_id, status |-> status]]
  /\ UNCHANGED <<db, faults, cache, clients, audit_trails, client>>

\* SELECT o.* ... WHERE o.server_id = $1 AND o.status IN (...)
OrdersSelect(r) ==
  /\ At(r, "orders", "select")
  /\ reqs' = [reqs EXCEPT ![r] =
       [reqs[r] EXCEPT !.pc = "audit"]
         @@ [rows |-> {o \in 1..Len(orders) : /\ orders[o].server_id = reqs[r].user_id
                                              /\ orders[o].status \in reqs[r].status}]]
  /\ UNCHANGED <<db, faults, cache, clients, audit_trails, client>>

\* createAuditTrail and res.json(orders)
OrdersFinish(r) ==
  /\ At(r, "orders", "audit")
  /\ audit_trails' = audit_trails + 1
  /\ reqs' = [reqs EXCEPT ![r] = Answer(reqs[r], 200) @@ [rows |-> reqs[r].rows]]
  /\ UNCHANGED <<db, faults, cache, clients, client>>

\* the requests of kind op the server has seen
Sent(op) == {r \in Reqs : reqs[r].op = op}

\* endShift of the store up to its first await: it throws without a user or
\* with a negative endingCash, otherwise it calls getPendingOrders
StoreEndShift(endingCash) ==
  /\ call.phase = "none"
  /\ api.token
  /\ call' = IF endingCash < 0
             THEN [phase |-> "thrown", error |-> "Ending cash cannot be negative"]
             ELSE [phase |-> "getPendingOrders", endingCash |-> endingCash]
  /\ UNCHANGED <<server, api, sockets, timers, views>>

\* the request of getPendingOrders reaches the server
PendingOrdersArrive(r) ==
  /\ call.phase = "getPendingOrders"
  /\ Sent("orders") = {}
  /\ GetOrdersRequest(r, CurrentUser, PendingStatuses)

\* getPendingOrders resolved: with a non-empty list endShift throws, with an
\* empty one it goes on to posApi.endShift
StorePendingOrders(r) ==
  /\ call.phase = "getPendingOrders"
  /\ reqs[r].op = "orders" /\ reqs[r].pc = "done"
  /\ call' = IF reqs[r].resp # 200
             THEN [phase |-> "thrown", error |-> "Failed to fetch orders"]
             ELSE IF Cardinality(reqs[r].rows) > 0
             THEN [phase |-> "thrown", error |-> "Cannot end shift with pending orders",
                   pendingOrders |-> Cardinality(reqs[r].rows)]
             ELSE [phase |-> "endShift", endingCash |-> call.endingCash]
  /\ UNCHANGED <<server, api, sockets, timers, views>>

\* the request of posApi.endShift reaches the server
EndShiftArrive(r) ==
  /\ call.phase = "endShift"
  /\ Sent("end") = {}
  /\ EndShiftRequest(r, CurrentUser, call.endingCash)

\* posApi.endShift resolved or rejected
StoreShiftEnded(r) ==
  /\ call.phase = "endShift"
  /\ reqs[r].op = "end" /\ reqs[r].pc = "done"
  /\ call' = IF reqs[r].resp = 200
             THEN [phase |-> "returned"]
             ELSE [phase |-> "thrown", error |-> "Failed to end shift"]
  /\ UNCHANGED <<server, api, sockets, timers, views>>

\* the orders a staff member may have when the shift is to end
ShiftEndKinds ==
  LedgerKinds \cup
  { [items |-> <<Item(1, 1000, <<>>)>>, status |-> status, tip_amount |-> 0,
     payment_method |-> Undefined] : status \in {"open", "ready", "cancelled"} }

\* a terminal with staff member 1 logged in during the active shift, and the
\* orders of the day
ShiftEndInit ==
  \E n \in 0..MaxOrders :
    \E p \in 1..(n + 1), ks \in [1..n -> [kind : ShiftEndKinds, server_id : Staff]] :
      /\ cache = RefreshCache(<<SettingsRow(SchemaTaxRate, FALSE)>>)
      /\ clients = <<>>
      /\ audit_trails = n + Len(LedgerPayments(ks)) + 1
      /\ orders = [i \in 1..n |->
                     LedgerOrder(ks[i].kind, ks[i].server_id, i, IF i < p THEN i ELSE i + 1)]
      /\ order_items = [i \in 1..n |-> Len(ks[i].kind.items)]
      /\ tables = [t \in TableIds |-> "available"]
      /\ payments = LedgerPayments(ks)
      /\ receipts = LedgerReceipts(LedgerPayments(ks))
      /\ shifts = <<NewShiftRow(CurrentUser, 10000, p)>>
      /\ order_seq = n
      /\ receipt_seq = Len(LedgerPayments(ks))
      /\ clock = n + 1
      /\ reqs = [r \in Reqs |-> Idle]
      /\ faults = 0
      /\ api = [token |-> TRUE, ws |-> 1, reconnectTimeout |-> 0, reconnectAttempts |-> 0,
                pingInterval |-> 0, wsListeners |-> NoListeners]
      /\ sockets = <<[readyState |-> "CONNECTING", token |-> TRUE]>>
      /\ timers = [next |-> 1, pending |-> {}]
      /\ call = NoCall
      /\ views = NoViews

ShiftEndNext ==
  \/ \E endingCash \in StoreEndingCash : StoreEndShift(endingCash)
  \/ \E r \in Reqs : PendingOrdersArrive(r)
  \/ \E r \in Reqs : OrdersSelect(r)
  \/ \E r \in Reqs : OrdersFinish(r)
  \/ \E r \in Reqs : StorePendingOrders(r)
  \/ \E r \in Reqs : EndShiftArrive(r)
  \/ \E r \in Reqs : EndSelectShift(r)
  \/ \E r \in Reqs : EndSelectOrders(r)
  \/ \E r \in Reqs : EndUpdateShift(r)
  \/ \E r \in Reqs : EndFinish(r)
  \/ \E r \in Reqs : StoreShiftEnded(r)

ShiftEndSpec == ShiftEndInit /\ [][ShiftEndNext]_vars

\* the orders of a staff member that are neither paid nor cancelled
UnpaidOrders(user_id) ==
  {o \in 1..Len(orders) : orders[o].server_id = user_id /\ orders[o].status \in Active}

\* C40: the store's endShift sends no end-shift request, and no shift of the
\* staff member is closed, while that staff member has an order that is open,
\* sent_to_kitchen, preparing, ready or served
C40_NoEndShiftWithUnpaidOrders ==
  [][/\ \A r \in Reqs :
          (reqs[r].op # "end" /\ reqs'[r].op = "end") => UnpaidOrders(CurrentUser) = {}
     /\ \A s \in 1..Len(shifts) :
          (shifts[s].status = "active" /\ shifts'[s].status = "closed")
            => UnpaidOrders(shifts[s].user_id) = {}]_vars

====
